---- MODULE Spec2Model ----
(***************************************************************************)
(* A model of the Knight bytecode pipeline of knightrs: the single-pass    *)
(* compiler (parser/parser/function.rs, program/builder.rs), the stack VM  *)
(* (vm/vm.rs) and the mark-and-sweep collector over heap strings and lists *)
(* (value.rs, value2/knstring.rs).                                         *)
(***************************************************************************)
EXTENDS Integers, Sequences, FiniteSets, TLC

(***************************************************************************)
(* Bounds of the model.                                                    *)
(***************************************************************************)
\* longest run of the VM that is explored, in executed opcodes
MaxSteps == 40
\* deepest nesting of Vm::run frames / jumpstack entries that is explored
MaxDepth == 3

(***************************************************************************)
(* Values (value.rs:30-69).  A value is a tagged word; the model keeps the *)
(* kind and the payload apart.                                             *)
(***************************************************************************)
NullV == [t |-> "null", v |-> 0]
BoolV(b) == [t |-> "bool", v |-> b]
IntV(i) == [t |-> "int", v |-> i]
BlockV(i) == [t |-> "block", v |-> i]
StrV(s) == [t |-> "str", v |-> s]
ListV(l) == [t |-> "list", v |-> l]
\* an unset variable slot (Option::None)
NoneV == [t |-> "none", v |-> 0]

is_null(x) == x.t = "null"
as_block(x) == x.t = "block"

\* impl PartialEq for Value: same word, or two heap values with the same
\* contents
RECURSIVE ValueEq(_, _)
ValueEq(a, b) ==
    /\ a.t = b.t
    /\ IF a.t = "list"
       THEN Len(a.v) = Len(b.v) /\ \A i \in 1..Len(a.v) : ValueEq(a.v[i], b.v[i])
       ELSE a.v = b.v

(***************************************************************************)
(* Opcodes.                                                                *)
(***************************************************************************)
\* Opcode::arity, the number of operands run_inner pops before the match
Arity(op) ==
    CASE op \in {"PushConstant", "Jump", "GetVar", "SetVar", "Prompt", "Random", "Dup"} -> 0
      [] op \in {"JumpIfTrue", "JumpIfFalse"} -> 1
      [] op \in {"Return", "Call", "Quit", "Output", "Dump", "Length", "Not", "Negate",
                 "Ascii", "Box", "Head", "Tail", "Pop"} -> 1
      [] op \in {"Add", "Sub", "Mul", "Div", "Mod", "Pow", "Lth", "Gth", "Eql"} -> 2
      [] op = "Get" -> 3
      [] op = "Set" -> 4
      [] OTHER -> 0

SimpleFns == {"P", "R", "C", "Q", "D", "O", "L", "!", "~", "A", ",", "[", "]",
              "+", "-", "*", "/", "%", "^", "<", ">", "?", "G", "S"}

simple_opcode_for(func) ==
    CASE func = "P" -> "Prompt"
      [] func = "R" -> "Random"
      [] func = "C" -> "Call"
      [] func = "Q" -> "Quit"
      [] func = "D" -> "Dump"
      [] func = "O" -> "Output"
      [] func = "L" -> "Length"
      [] func = "!" -> "Not"
      [] func = "~" -> "Negate"
      [] func = "A" -> "Ascii"
      [] func = "," -> "Box"
      [] func = "[" -> "Head"
      [] func = "]" -> "Tail"
      [] func = "+" -> "Add"
      [] func = "-" -> "Sub"
      [] func = "*" -> "Mul"
      [] func = "/" -> "Div"
      [] func = "%" -> "Mod"
      [] func = "^" -> "Pow"
      [] func = "<" -> "Lth"
      [] func = ">" -> "Gth"
      [] func = "?" -> "Eql"
      [] func = "G" -> "Get"
      [] func = "S" -> "Set"

(***************************************************************************)
(* Builder (program/builder.rs).  Instruction indices are 0-based as in    *)
(* the source; code[i + 1] is the instruction at index i.                  *)
(***************************************************************************)
code_from_opcode_and_offset(opcode, offset) == [op |-> opcode, off |-> offset]

\* the word 0 that defer_jump pushes
Placeholder == [op |-> "Placeholder", off |-> 0]

\* variables: the names in the order of their insertion.  base counts the
\* names inserted before them that the model does not spell out, each with
\* the one GetVar word that introduced it, at the start of the code
BuilderDefault == [code |-> <<>>, constants |-> <<>>, variables |-> <<>>, base |-> 0]

jump_index(b) == b.base + Len(b.code)

opcode_with_offset(b, opcode, offset) ==
    [b EXCEPT !.code = Append(@, code_from_opcode_and_offset(opcode, offset))]

opcode_without_offset(b, opcode) ==
    [b EXCEPT !.code = Append(@, code_from_opcode_and_offset(opcode, 0))]

\* the DeferredJump returned is (jump_index(b), when)
defer_jump(b) == [b EXCEPT !.code = Append(@, Placeholder)]

\* the conditional jumps exchanged
JumpOpcode_exchanged(when) ==
    CASE when = "True" -> "JumpIfFalse"
      [] when = "False" -> "JumpIfTrue"
      [] when = "Always" -> "Jump"

\* DeferredJump::jump_to: the opcode of a JumpWhen
JumpOpcode(when) ==
    CASE when = "True" -> "JumpIfTrue"
      [] when = "False" -> "JumpIfFalse"
      [] when = "Always" -> "Jump"

DeferredJump_jump_to(b, deferred, when, index) ==
    [b EXCEPT !.code[deferred - b.base + 1] = code_from_opcode_and_offset(JumpOpcode(when), index)]

\* a patch that aims one word past the current index
jump_to_after_current(b, deferred, when) == DeferredJump_jump_to(b, deferred, when, jump_index(b) + 1)

jump_to_current(b, deferred, when) == DeferredJump_jump_to(b, deferred, when, jump_index(b))

Builder_jump_to(b, when, index) == DeferredJump_jump_to(defer_jump(b), jump_index(b), when, index)

SetMin(S) == CHOOSE x \in S : \A y \in S : x <= y

\* a pool that takes a new slot for every constant pushed
push_constant_appending(b, value) ==
    opcode_with_offset([b EXCEPT !.constants = Append(@, value)], "PushConstant", Len(b.constants))

push_constant(b, value) ==
    LET found == {i \in 1..Len(b.constants) : ValueEq(value, b.constants[i])}
    IN IF found # {}
       THEN opcode_with_offset(b, "PushConstant", SetMin(found) - 1)
       ELSE opcode_with_offset([b EXCEPT !.constants = Append(@, value)],
                               "PushConstant", Len(b.constants))

MAX_VARIABLE_COUNT == 65535

\* the number of names in the table
variables_len(b) == b.base + Len(b.variables)

\* a table that gives every occurrence of a name the next index
variable_index_fresh(b, name, o) ==
    [ok |-> TRUE, b |-> [b EXCEPT !.variables = Append(@, name)], index |-> variables_len(b)]

\* Builder::variable_index: the index of name in the insertion-ordered set,
\* inserting it when new; TooManyVariables when variable_count is on and
\* i > MAX_VARIABLE_COUNT
variable_index(b, name, o) ==
    LET found == {i \in 1..Len(b.variables) : b.variables[i] = name}
        i == variables_len(b)
    IN IF found # {}
       THEN [ok |-> TRUE, b |-> b, index |-> b.base + SetMin(found) - 1]
       ELSE IF o.variable_count /\ i > MAX_VARIABLE_COUNT
       THEN [ok |-> FALSE, b |-> b, index |-> 0]
       ELSE [ok |-> TRUE, b |-> [b EXCEPT !.variables = Append(@, name)], index |-> i]

\* Builder::get_variable: `?` on the index, then GetVar
Builder_get_variable(b, name, o) ==
    LET r == variable_index(b, name, o)
    IN IF r.ok THEN [ok |-> TRUE, b |-> opcode_with_offset(r.b, "GetVar", r.index)]
       ELSE [ok |-> FALSE, b |-> b]

\* Builder::set_variable: `?` on the index, then SetVar
Builder_set_variable(b, name, o) ==
    LET r == variable_index(b, name, o)
    IN IF r.ok THEN [ok |-> TRUE, b |-> opcode_with_offset(r.b, "SetVar", r.index)]
       ELSE [ok |-> FALSE, b |-> b]

\* Builder::build: the final Return, then the Program
build(b) ==
    LET fin == opcode_without_offset(b, "Return")
    IN [code |-> fin.code, constants |-> fin.constants, num_variables |-> variables_len(fin),
        variable_names |-> fin.variables]

(***************************************************************************)
(* Parser (parser/parser/function.rs).  The source is a sequence of        *)
(* tokens in prefix order; the parser state is the tokens, the position of *)
(* the next token, the builder, and whether a parse error was raised.      *)
(* spans records, for every expression parsed, the instructions emitted    *)
(* for it: [s, e) in the code, [ts, te) in the tokens, and its head token. *)
(***************************************************************************)
Fn(c) == [k |-> "fn", c |-> c]
Lit(v) == [k |-> "lit", v |-> v]
Var(n) == [k |-> "var", n |-> n]

ParserNew(toks, o) ==
    [toks |-> toks, pos |-> 1, b |-> BuilderDefault, ok |-> TRUE, spans |-> <<>>, opts |-> o]

ParseFail(p) == [p EXCEPT !.ok = FALSE]

AtEnd(p) == p.pos > Len(p.toks)

RECURSIVE parse_expression(_)
RECURSIVE parse_arguments(_, _)

\* parse_argument: an expression must follow (MissingArgument otherwise)
parse_argument(p) == IF ~p.ok THEN p ELSE parse_expression(p)

\* the loop `for arg in 0..simple_opcode.arity()`
parse_arguments(p, n) == IF n = 0 \/ ~p.ok THEN p ELSE parse_arguments(parse_argument(p), n - 1)

WithB(p, b) == [p EXCEPT !.b = b]

parse_block(p) ==
    LET jump_after == jump_index(p.b)
        p1 == WithB(p, defer_jump(p.b))
        jump_idx == jump_index(p1.b)
        p2 == parse_argument(p1)
        b3 == jump_to_current(opcode_without_offset(p2.b, "Return"), jump_after, "Always")
    IN IF ~p2.ok THEN p2 ELSE WithB(p2, push_constant(b3, BlockV(jump_idx)))

parse_assignment(p) ==
    IF AtEnd(p) \/ p.toks[p.pos].k # "var" THEN ParseFail(p)
    ELSE LET name == p.toks[p.pos].n
             p1 == [p EXCEPT !.pos = @ + 1]
             isB == ~AtEnd(p1) /\ p1.toks[p1.pos].k = "fn" /\ p1.toks[p1.pos].c = "B"
             pb == parse_block([p1 EXCEPT !.pos = @ + 1])
             p2 == IF ~isB THEN parse_argument(p1)
                   ELSE IF ~pb.ok THEN pb
                   ELSE [pb EXCEPT !.spans = Append(@, [s |-> jump_index(p1.b), e |-> jump_index(pb.b),
                                                        ts |-> p1.pos, te |-> pb.pos, f |-> "B"])]
             set == Builder_set_variable(p2.b, name, p.opts)
         IN IF ~p2.ok THEN p2 ELSE IF ~set.ok THEN ParseFail(p2) ELSE WithB(p2, set.b)

\* Function::parse, after the function's token was consumed
Function_parse(p, fn_name) ==
    IF fn_name \in SimpleFns
    THEN LET p1 == parse_arguments(p, Arity(simple_opcode_for(fn_name)))
         IN IF ~p1.ok THEN p1 ELSE WithB(p1, opcode_without_offset(p1.b, simple_opcode_for(fn_name)))
    ELSE CASE fn_name = ";" ->
              LET p1 == parse_argument(p)
                  p2 == parse_argument(WithB(p1, opcode_without_offset(p1.b, "Pop")))
              IN p2
           [] fn_name = "=" -> parse_assignment(p)
           [] fn_name = "B" -> parse_block(p)
           [] fn_name \in {"&", "|"} ->
              LET p1 == parse_argument(p)
                  b1 == opcode_without_offset(p1.b, "Dup")
                  end == jump_index(b1)
                  when == IF fn_name = "&" THEN "False" ELSE "True"
                  b2 == opcode_without_offset(defer_jump(b1), "Pop")
                  p2 == parse_argument(WithB(p1, b2))
              IN IF ~p2.ok THEN p2 ELSE WithB(p2, jump_to_current(p2.b, end, when))
           [] fn_name = "I" ->
              LET p1 == parse_argument(p)
                  to_false == jump_index(p1.b)
                  p2 == parse_argument(WithB(p1, defer_jump(p1.b)))
                  to_end == jump_index(p2.b)
                  b3 == jump_to_current(defer_jump(p2.b), to_false, "False")
                  p3 == parse_argument(WithB(p2, b3))
              IN IF ~p3.ok THEN p3 ELSE WithB(p3, jump_to_current(p3.b, to_end, "Always"))
           [] fn_name = "W" ->
              LET while_start == jump_index(p.b)
                  p1 == parse_argument(p)
                  deferred == jump_index(p1.b)
                  p2 == parse_argument(WithB(p1, defer_jump(p1.b)))
                  b3 == Builder_jump_to(p2.b, "Always", while_start)
              IN IF ~p2.ok THEN p2 ELSE WithB(p2, jump_to_current(b3, deferred, "False"))
           [] OTHER -> ParseFail(p)

parse_expression(p) ==
    IF ~p.ok \/ AtEnd(p) THEN ParseFail(p)
    ELSE LET tok == p.toks[p.pos]
             s == jump_index(p.b)
             p1 == [p EXCEPT !.pos = @ + 1]
             get == Builder_get_variable(p1.b, tok.n, p.opts)
             p2 == CASE tok.k = "lit" -> WithB(p1, push_constant(p1.b, tok.v))
                     [] tok.k = "var" -> IF get.ok THEN WithB(p1, get.b) ELSE ParseFail(p1)
                     [] tok.k = "fn" -> Function_parse(p1, tok.c)
         IN IF ~p2.ok THEN p2
            ELSE [p2 EXCEPT !.spans = Append(@, [s |-> s, e |-> jump_index(p2.b),
                                                 ts |-> p.pos, te |-> p2.pos,
                                                 f |-> IF tok.k = "fn" THEN tok.c ELSE tok.k])]

\* Parser::parse_program: one expression, then Builder::build
parse_program(toks, o) ==
    LET p == parse_expression(ParserNew(toks, o))
    IN [ok |-> p.ok /\ AtEnd(p), program |-> build(p.b), spans |-> p.spans, toks |-> toks]

(***************************************************************************)
(* Coercions and operators on values (value.rs:296-1076).  Strings are     *)
(* sequences of one-character strings.  A result is [k, v]: k = "ok" with  *)
(* the value, k = "err" with the error kind, or k = "bug" when the code    *)
(* reaches a debug assertion that fails (undefined behaviour without       *)
(* debug assertions).                                                      *)
(***************************************************************************)
Ok(v) == [k |-> "ok", v |-> v]
Err(e) == [k |-> "err", v |-> e]
Bug(e) == [k |-> "bug", v |-> e]

\* Options::compliance, the two settings the modelled paths read
OptionsDefault == [no_block_conversions |-> FALSE, strict_blocks |-> FALSE, variable_count |-> FALSE,
                   negative_indexing |-> FALSE]
OptionsStrict == [no_block_conversions |-> TRUE, strict_blocks |-> TRUE, variable_count |-> TRUE,
                  negative_indexing |-> FALSE]

Digits == <<"0", "1", "2", "3", "4", "5", "6", "7", "8", "9">>
Alphabet == Digits \o <<"a", "b", "c", "x", "\\", "-", " ">>
CharCode(c) == CHOOSE i \in 1..Len(Alphabet) : Alphabet[i] = c
IsDigit(c) == \E i \in 1..10 : Digits[i] = c

RECURSIVE IntToStr(_)
IntToStr(n) ==
    IF n < 0 THEN <<"-">> \o IntToStr(0 - n)
    ELSE IF n < 10 THEN <<Digits[n + 1]>>
    ELSE IntToStr(n \div 10) \o <<Digits[(n % 10) + 1]>>

RECURSIVE ParseDigits(_, _, _)
ParseDigits(s, i, acc) ==
    IF i > Len(s) \/ ~IsDigit(s[i]) THEN acc
    ELSE ParseDigits(s, i + 1, acc * 10 + (CharCode(s[i]) - 1))

StrToInt(s) ==
    IF Len(s) > 0 /\ s[1] = "-" THEN 0 - ParseDigits(s, 2, 0) ELSE ParseDigits(s, 1, 0)

\* the value word of a non-heap value (value.rs:60-69, 106-138)
REPR_NULL == 0
REPR_FALSE == 2
REPR_TRUE == 10
TAG_BLOCK == 4
TAG_SHIFT == 3
TAG_INT == 1
TAG_INT_SHIFT == 1
Word == 2 ^ 16

Repr(x) ==
    CASE x.t = "null" -> REPR_NULL
      [] x.t = "bool" -> IF x.v THEN REPR_TRUE ELSE REPR_FALSE
      [] x.t = "int" -> ((x.v * (2 ^ TAG_INT_SHIFT)) + TAG_INT) % Word
      [] x.t = "block" -> (x.v * (2 ^ TAG_SHIFT)) + TAG_BLOCK
      [] OTHER -> Word

\* knstring::consts::LITERAL_MAX_LENGTH: the word of the integer 9
LITERAL_MAX_LENGTH == 19

ToBoolean(x, o) ==
    IF Repr(x) <= 2 THEN Ok(FALSE)
    ELSE IF x.t \in {"bool", "int", "block"}
    THEN IF o.no_block_conversions /\ as_block(x)
         THEN Err("Todo: cannot convert Blocks to booleans")
         ELSE Ok(TRUE)
    ELSE Ok(Len(x.v) > 0)

ToInteger(x, o) ==
    IF Repr(x) <= 2 THEN Ok(0)
    ELSE CASE x.t = "bool" -> Ok(1)
           [] x.t = "int" -> Ok(x.v)
           [] x.t = "list" -> Ok(Len(x.v))
           [] x.t = "str" -> Ok(StrToInt(x.v))
           [] x.t = "block" -> Err("Todo: cannot convert Blocks to integers")

RECURSIVE ToKnString(_, _)
RECURSIVE JoinList(_, _, _)

\* List::join / List::to_knstring: the elements' strings with sep between
JoinList(l, sep, o) ==
    IF Len(l) = 0 THEN Ok(<<>>)
    ELSE LET h == ToKnString(l[1], o)
             r == JoinList(Tail(l), sep, o)
         IN IF h.k # "ok" THEN h
            ELSE IF r.k # "ok" THEN r
            ELSE IF Len(l) = 1 THEN h
            ELSE Ok(h.v \o sep \o r.v)

ToKnString(x, o) ==
    IF Repr(x) <= LITERAL_MAX_LENGTH
    THEN IF o.no_block_conversions /\ as_block(x)
         THEN Err("Todo: cannot convert Blocks to strings")
         ELSE CASE x.t = "null" -> Ok(<<>>)
                [] x.t = "bool" -> Ok(IF x.v THEN <<"t", "r", "u", "e">> ELSE <<"f", "a", "l", "s", "e">>)
                [] x.t = "int" -> Ok(IntToStr(x.v))
                [] OTHER -> Bug("lookup_literal of a block word")
    ELSE CASE x.t = "str" -> Ok(x.v)
           [] x.t = "list" -> JoinList(x.v, <<"\n">>, o)
           [] x.t = "int" -> Ok(IntToStr(x.v))
           [] x.t = "block" -> Err("Todo: cannot convert Blocks to strings")

RECURSIVE StrToList(_)
StrToList(s) == IF Len(s) = 0 THEN <<>> ELSE <<StrV(<<s[1]>>)>> \o StrToList(Tail(s))

RECURSIVE IntToList(_)
IntToList(n) == IF n < 10 THEN <<IntV(n)>> ELSE IntToList(n \div 10) \o <<IntV(n % 10)>>

ToList(x, o) ==
    CASE x.t = "list" -> Ok(x.v)
      [] x.t = "str" -> Ok(StrToList(x.v))
      [] x.t = "int" -> Ok(IF x.v < 0 THEN [i \in 1..Len(IntToList(0 - x.v)) |-> IntV(0 - IntToList(0 - x.v)[i].v)]
                           ELSE IntToList(x.v))
      [] x.t = "bool" -> Ok(IF x.v THEN <<x>> ELSE <<>>)
      [] x.t = "null" -> Ok(<<>>)
      [] x.t = "block" -> Err("Todo: cannot convert Blocks to lists")

TypeError(x, function) == Err("TypeError")

\* the dump form written by kn_dump
RECURSIVE DumpForm(_)
RECURSIVE DumpElems(_)
DumpElems(l) ==
    IF Len(l) = 0 THEN <<>>
    ELSE IF Len(l) = 1 THEN DumpForm(l[1])
    ELSE DumpForm(l[1]) \o <<",", " ">> \o DumpElems(Tail(l))
DumpForm(x) ==
    CASE x.t = "null" -> <<"n", "u", "l", "l">>
      [] x.t = "bool" -> IF x.v THEN <<"t", "r", "u", "e">> ELSE <<"f", "a", "l", "s", "e">>
      [] x.t = "int" -> IntToStr(x.v)
      [] x.t = "str" -> <<"\"">> \o x.v \o <<"\"">>
      [] x.t = "list" -> <<"[">> \o DumpElems(x.v) \o <<"]">>
      [] x.t = "block" -> <<"B", "l", "o", "c", "k">>

RECURSIVE HasBlock(_)
HasBlock(x) == \/ as_block(x)
               \/ x.t = "list" /\ \E i \in 1..Len(x.v) : HasBlock(x.v[i])

\* kn_dump: the text written, or the error
kn_dump(x, o) ==
    IF x.t = "list" /\ HasBlock(x) /\ ~o.strict_blocks THEN TypeError(x, "DUMP")
    ELSE IF as_block(x) /\ ~o.strict_blocks THEN TypeError(x, "DUMP")
    ELSE Ok(DumpForm(x))

kn_call_is_block(x) == as_block(x)

kn_length(x, o) ==
    IF x.t \in {"str", "list"} THEN Ok(IntV(Len(x.v)))
    ELSE LET l == ToList(x, o) IN IF l.k # "ok" THEN l ELSE Ok(IntV(Len(l.v)))

kn_not(x, o) == LET b == ToBoolean(x, o) IN IF b.k # "ok" THEN b ELSE Ok(BoolV(~b.v))

kn_negate(x, o) == LET i == ToInteger(x, o) IN IF i.k # "ok" THEN i ELSE Ok(IntV(0 - i.v))

RECURSIVE RepeatSeq(_, _)
RepeatSeq(s, n) == IF n = 0 THEN <<>> ELSE s \o RepeatSeq(s, n - 1)

kn_plus(x, rhs, o) ==
    CASE x.t = "int" -> LET r == ToInteger(rhs, o) IN IF r.k # "ok" THEN r ELSE Ok(IntV(x.v + r.v))
      [] x.t = "str" -> LET r == ToKnString(rhs, o) IN IF r.k # "ok" THEN r ELSE Ok(StrV(x.v \o r.v))
      [] x.t = "list" -> LET r == ToList(rhs, o) IN IF r.k # "ok" THEN r ELSE Ok(ListV(x.v \o r.v))
      [] OTHER -> TypeError(x, "+")

kn_minus(x, rhs, o) ==
    IF x.t = "int"
    THEN LET r == ToInteger(rhs, o) IN IF r.k # "ok" THEN r ELSE Ok(IntV(x.v - r.v))
    ELSE TypeError(x, "-")

kn_asterisk(x, rhs, o) ==
    IF x.t \in {"int", "str", "list"}
    THEN LET r == ToInteger(rhs, o)
         IN IF r.k # "ok" THEN r
            ELSE IF x.t = "int" THEN Ok(IntV(x.v * r.v))
            ELSE IF r.v < 0 THEN Err("DomainError: repetition count is negative")
            ELSE Ok([t |-> x.t, v |-> RepeatSeq(x.v, r.v)])
    ELSE TypeError(x, "*")

kn_slash(x, rhs, o) ==
    IF x.t = "int"
    THEN LET r == ToInteger(rhs, o)
         IN IF r.k # "ok" THEN r
            ELSE IF r.v = 0 THEN Err("IntegerError: division by zero")
            ELSE Ok(IntV(IF (x.v < 0) = (r.v < 0)
                         THEN (IF x.v < 0 THEN 0 - x.v ELSE x.v) \div (IF r.v < 0 THEN 0 - r.v ELSE r.v)
                         ELSE 0 - ((IF x.v < 0 THEN 0 - x.v ELSE x.v) \div (IF r.v < 0 THEN 0 - r.v ELSE r.v))))
    ELSE TypeError(x, "/")

kn_percent(x, rhs, o) ==
    IF x.t = "int"
    THEN LET r == ToInteger(rhs, o)
         IN IF r.k # "ok" THEN r
            ELSE IF r.v = 0 THEN Err("IntegerError: modulo by zero")
            ELSE IF x.v < 0 \/ r.v < 0 THEN Err("IntegerError: negative operand")
            ELSE Ok(IntV(x.v % r.v))
    ELSE TypeError(x, "%")

kn_caret(x, rhs, o) ==
    CASE x.t = "int" -> LET r == ToInteger(rhs, o)
                        IN IF r.k # "ok" THEN r
                           ELSE IF r.v < 0 THEN Err("IntegerError: negative exponent")
                           ELSE Ok(IntV(x.v ^ r.v))
      [] x.t = "list" -> LET sep == ToKnString(rhs, o)
                         IN IF sep.k # "ok" THEN sep
                            ELSE LET j == JoinList(x.v, sep.v, o)
                                 IN IF j.k # "ok" THEN j ELSE Ok(StrV(j.v))
      [] OTHER -> TypeError(x, "^")

kn_head(x, o) ==
    CASE x.t = "str" -> IF Len(x.v) = 0 THEN Err("DomainError: empty string") ELSE Ok(StrV(<<x.v[1]>>))
      [] x.t = "list" -> IF Len(x.v) = 0 THEN Err("DomainError: empty list for head") ELSE Ok(x.v[1])
      [] OTHER -> TypeError(x, "[")

kn_tail(x, o) ==
    IF x.t \in {"str", "list"}
    THEN IF Len(x.v) = 0 THEN Err("DomainError: empty container") ELSE Ok([t |-> x.t, v |-> Tail(x.v)])
    ELSE TypeError(x, "]")

kn_ascii(x, o) ==
    CASE x.t = "int" -> IF x.v \in 1..Len(Alphabet) THEN Ok(StrV(<<Alphabet[x.v]>>))
                        ELSE Err("IntegerError: not a character")
      [] x.t = "str" -> IF Len(x.v) = 0 THEN Err("DomainError: empty string") ELSE Ok(IntV(CharCode(x.v[1])))
      [] OTHER -> TypeError(x, "ASCII")

\* Ordering as -1, 0, 1
CmpInt(a, b) == IF a < b THEN 0 - 1 ELSE IF a > b THEN 1 ELSE 0

RECURSIVE CmpStr(_, _)
CmpStr(a, b) ==
    IF Len(a) = 0 \/ Len(b) = 0 THEN CmpInt(Len(a), Len(b))
    ELSE IF a[1] # b[1] THEN CmpInt(CharCode(a[1]), CharCode(b[1]))
    ELSE CmpStr(Tail(a), Tail(b))

RECURSIVE kn_compare(_, _, _)
RECURSIVE CmpList(_, _, _)
CmpList(a, b, o) ==
    IF Len(a) = 0 \/ Len(b) = 0 THEN Ok(CmpInt(Len(a), Len(b)))
    ELSE LET c == kn_compare(a[1], b[1], o)
         IN IF c.k # "ok" \/ c.v # 0 THEN c ELSE CmpList(Tail(a), Tail(b), o)

kn_compare(x, rhs, o) ==
    CASE x.t = "int" -> LET r == ToInteger(rhs, o) IN IF r.k # "ok" THEN r ELSE Ok(CmpInt(x.v, r.v))
      [] x.t = "str" -> LET r == ToKnString(rhs, o) IN IF r.k # "ok" THEN r ELSE Ok(CmpStr(x.v, r.v))
      [] x.t = "bool" -> LET r == ToBoolean(rhs, o)
                         IN IF r.k # "ok" THEN r
                            ELSE Ok(CmpInt(IF x.v THEN 1 ELSE 0, IF r.v THEN 1 ELSE 0))
      [] x.t = "list" -> LET r == ToList(rhs, o) IN IF r.k # "ok" THEN r ELSE CmpList(x.v, r.v, o)
      [] OTHER -> TypeError(x, "<")

kn_equals(x, rhs, o) ==
    IF o.strict_blocks /\ (HasBlock(x) \/ HasBlock(rhs)) THEN TypeError(x, "?")
    ELSE Ok(ValueEq(x, rhs))

\* a fix_len that knows no negative indexing
fix_len_unsigned(container, start, o) ==
    IF start < 0 THEN Err("DomainError: negative start position") ELSE Ok(start)

\* fix_len: under negative_indexing a negative start has the length of the
\* container added; a start that is negative after that is refused
fix_len(container, start, o) ==
    IF o.negative_indexing /\ start < 0 /\ container.t \notin {"str", "list"}
    THEN Err("TypeError")
    ELSE LET fixed == IF o.negative_indexing /\ start < 0 THEN start + Len(container.v)
                      ELSE start
         IN IF fixed < 0 THEN Err("DomainError: negative start position") ELSE Ok(fixed)

kn_get(x, start, len, o) ==
    LET s == ToInteger(start, o)
        l == ToInteger(len, o)
        f == fix_len(x, s.v, o)
    IN IF s.k # "ok" THEN s
       ELSE IF f.k # "ok" THEN f
       ELSE IF l.k # "ok" THEN l
       ELSE IF l.v < 0 THEN Err("DomainError: negative length")
       ELSE IF x.t \in {"str", "list"}
       THEN IF f.v + l.v > Len(x.v) THEN Err("IndexOutOfBounds")
            ELSE Ok([t |-> x.t, v |-> SubSeq(x.v, f.v + 1, f.v + l.v)])
       ELSE TypeError(x, "GET")

kn_set(x, start, len, repl, o) ==
    LET s == ToInteger(start, o)
        l == ToInteger(len, o)
        r == IF x.t = "list" THEN ToList(repl, o) ELSE ToKnString(repl, o)
        f == fix_len(x, s.v, o)
    IN IF s.k # "ok" THEN s
       ELSE IF f.k # "ok" THEN f
       ELSE IF l.k # "ok" THEN l
       ELSE IF l.v < 0 THEN Err("DomainError: negative length")
       ELSE IF x.t \in {"str", "list"}
       THEN IF r.k # "ok" THEN r
            ELSE IF f.v + l.v > Len(x.v) THEN Err("IndexOutOfBounds")
            ELSE Ok([t |-> x.t, v |-> SubSeq(x.v, 1, f.v) \o r.v \o SubSeq(x.v, f.v + l.v + 1, Len(x.v))])
       ELSE TypeError(x, "SET")

(***************************************************************************)
(* The programs that are run.                                              *)
(***************************************************************************)
Str2 == StrV(<<"a", "b">>)
StrBs == StrV(<<"a", "\\">>)

Sources == <<
    \* + 1 2
    <<Fn("+"), Lit(IntV(1)), Lit(IntV(2))>>,
    \* + 7 DUMP 3
    <<Fn("+"), Lit(IntV(7)), Fn("D"), Lit(IntV(3))>>,
    \* DUMP "ab"
    <<Fn("D"), Lit(Str2)>>,
    \* ; = i 0 ; WHILE < i 2 = i + i 1 OUTPUT i
    <<Fn(";"), Fn("="), Var("i"), Lit(IntV(0)), Fn(";"), Fn("W"), Fn("<"), Var("i"), Lit(IntV(2)),
      Fn("="), Var("i"), Fn("+"), Var("i"), Lit(IntV(1)), Fn("O"), Var("i")>>,
    \* WHILE 0 1
    <<Fn("W"), Lit(IntV(0)), Lit(IntV(1))>>,
    \* ; = i 0 WHILE < i 1 = i + i 1
    <<Fn(";"), Fn("="), Var("i"), Lit(IntV(0)), Fn("W"), Fn("<"), Var("i"), Lit(IntV(1)),
      Fn("="), Var("i"), Fn("+"), Var("i"), Lit(IntV(1))>>,
    \* ; = a 5 ; = f BLOCK + a 1 + 2 CALL f
    <<Fn(";"), Fn("="), Var("a"), Lit(IntV(5)), Fn(";"), Fn("="), Var("f"), Fn("B"),
      Fn("+"), Var("a"), Lit(IntV(1)), Fn("+"), Lit(IntV(2)), Fn("C"), Var("f")>>,
    \* CALL BLOCK "ab"
    <<Fn("C"), Fn("B"), Lit(Str2)>>,
    \* ; = n 1 ; = f BLOCK IF < n 1 0 ; = n - n 1 CALL f CALL f
    <<Fn(";"), Fn("="), Var("n"), Lit(IntV(1)), Fn(";"), Fn("="), Var("f"), Fn("B"),
      Fn("I"), Fn("<"), Var("n"), Lit(IntV(1)), Lit(IntV(0)),
      Fn(";"), Fn("="), Var("n"), Fn("-"), Var("n"), Lit(IntV(1)), Fn("C"), Var("f"),
      Fn("C"), Var("f")>>,
    \* CALL 3
    <<Fn("C"), Lit(IntV(3))>>,
    \* + 1 BLOCK 2
    <<Fn("+"), Lit(IntV(1)), Fn("B"), Lit(IntV(2))>>,
    \* IF PROMPT RANDOM , 1
    <<Fn("I"), Fn("P"), Fn("R"), Fn(","), Lit(IntV(1))>>,
    \* ; OUTPUT "a\" QUIT 3
    <<Fn(";"), Fn("O"), Lit(StrBs), Fn("Q"), Lit(IntV(3))>>,
    \* + LENGTH "ab" + ! 0 ~ 3
    <<Fn("+"), Fn("L"), Lit(Str2), Fn("+"), Fn("!"), Lit(IntV(0)), Fn("~"), Lit(IntV(3))>>,
    \* + [ "ab" + ] "ab" ASCII "a"
    <<Fn("+"), Fn("["), Lit(Str2), Fn("+"), Fn("]"), Lit(Str2), Fn("A"), Lit(StrV(<<"a">>))>>,
    \* SET (GET "ab" 0 1) 1 0 "x"
    <<Fn("S"), Fn("G"), Lit(Str2), Lit(IntV(0)), Lit(IntV(1)), Lit(IntV(1)), Lit(IntV(0)),
      Lit(StrV(<<"x">>))>>,
    \* ? (< 1 2) (> (* 2 3) (/ 7 (% 5 (^ 2 1))))
    <<Fn("?"), Fn("<"), Lit(IntV(1)), Lit(IntV(2)), Fn(">"), Fn("*"), Lit(IntV(2)), Lit(IntV(3)),
      Fn("/"), Lit(IntV(7)), Fn("%"), Lit(IntV(5)), Fn("^"), Lit(IntV(2)), Lit(IntV(1))>>,
    \* ; = x 1 ; = y "ab" + 4 = x y
    <<Fn(";"), Fn("="), Var("x"), Lit(IntV(1)), Fn(";"), Fn("="), Var("y"), Lit(Str2),
      Fn("+"), Lit(IntV(4)), Fn("="), Var("x"), Var("y")>>,
    \* + 1 CALL 3
    <<Fn("+"), Lit(IntV(1)), Fn("C"), Lit(IntV(3))>>,
    \* ; = f BLOCK WHILE 0 1 + 1 CALL f
    <<Fn(";"), Fn("="), Var("f"), Fn("B"), Fn("W"), Lit(IntV(0)), Lit(IntV(1)),
      Fn("+"), Lit(IntV(1)), Fn("C"), Var("f")>>,
    \* x
    <<Var("x")>>,
    \* + 1 x
    <<Fn("+"), Lit(IntV(1)), Var("x")>>,
    \* ; = x 1 ; = x 2 + x x
    <<Fn(";"), Fn("="), Var("x"), Lit(IntV(1)), Fn(";"), Fn("="), Var("x"), Lit(IntV(2)),
      Fn("+"), Var("x"), Var("x")>>,
    \* ; = f BLOCK 1 & f 2
    <<Fn(";"), Fn("="), Var("f"), Fn("B"), Lit(IntV(1)), Fn("&"), Var("f"), Lit(IntV(2))>>
>>

\* the operands of the & and | programs: literals, and BLOCK of a literal
Operands == <<
    <<Lit(NullV)>>, <<Lit(BoolV(FALSE))>>, <<Lit(BoolV(TRUE))>>, <<Lit(IntV(0))>>, <<Lit(IntV(4))>>,
    <<Lit(StrV(<<>>))>>, <<Lit(Str2)>>, <<Lit(ListV(<<>>))>>, <<Lit(ListV(<<IntV(0)>>))>>,
    <<Fn("B"), Lit(IntV(0))>>, <<Fn("B"), Var("a")>>
>>

\* + 9 (& a b) and + 9 (| a b): the logical operator with a value beneath it
LogicalSource(f, i, j) == <<Fn("+"), Lit(IntV(9)), Fn(f)>> \o Operands[i] \o Operands[j]

NumSources == Len(Sources)
NumOperands == Len(Operands)

(***************************************************************************)
(* The virtual machine (vm/vm.rs).                                         *)
(***************************************************************************)
VARIABLES
    prog,              \* the parsed source: program, spans, tokens
    stacktrace,        \* cfg(feature = "stacktrace")
    debug_assertions,  \* cfg(debug_assertions)
    opts,              \* the environment's options
    current_index,
    stack,
    variables,
    callstack,         \* Vm::callstack (stacktrace only)
    known_blocks,      \* Vm::known_blocks (stacktrace only): pairs <<block index, name>>
    frames,            \* the active calls of Vm::run: saved index and stack_len
    jumpstack,         \* run_inner's jumpstack (without stacktrace)
    output,            \* what was written to the environment's output
    status,            \* "new", "running", "done", "error", "panic", "ub"
    result,            \* the value or error Vm::run returned
    trace,             \* history: the opcodes executed and the stack after each
    open               \* history: the expressions whose code is being executed

vmvars == <<prog, stacktrace, debug_assertions, opts, current_index, stack, variables,
            callstack, known_blocks, frames, jumpstack, output, status, result, trace, open>>

\* The heap and the state of the machine as the collector sees it
VARIABLES
    heap,              \* the cells: allocated, marked, static, kind, data
    gc_stack,          \* Vm::stack as the collector sees it
    gc_variables,      \* Vm::variables
    gc_dynamic,        \* Vm::dynamic_variables (extensions)
    inflight,          \* the operator between its pops and its push
    last,              \* history: the last collection cycle
    gc_steps           \* history: the number of steps taken

gcvars == <<heap, gc_stack, gc_variables, gc_dynamic, inflight, last, gc_steps>>

VARIABLES
    builder,           \* a Builder under construction
    pending,           \* the DeferredJumps handed out and not yet consumed
    built,             \* the Program of Builder::build, once built
    bopts,             \* the options the builder's callers pass
    bhist              \* history: the calls made on the builder

bvars == <<builder, pending, built, bopts, bhist>>

VARIABLES
    val,               \* the word of the Value last constructed
    made               \* history: its constructor, the argument, and how the word is classified

wvars == <<val, made>>

VARIABLES
    cmp                \* history: the last two Values compared, and what == said

evars == <<cmp>>

VARIABLES
    la,                \* a List: the result of the last operation
    lb,                \* a List kept as the other operand
    limpl,             \* the List at work: "value/list.rs" or "list.rs"
    lops,              \* the number of operations made
    lres,              \* history: the last operation, whether it panicked, what == said
    law                \* history: the operands of the last compound operation and its results

lvars == <<la, lb, limpl, lops, lres, law>>

VARIABLES
    nested             \* the calls of Vm::run that are active, and history: the frames left

rvars == <<nested>>

VARIABLES
    prompt,            \* the environment's Prompt: the default input and the replacement
    phist,             \* history: the calls made on the prompt, the last one and what it returned
    environment,       \* Environment::variables and the variables allocated
    ehist              \* the handles held, and history: the last call and what it returned

envvars == <<prompt, phist, environment, ehist>>

restvars == <<bvars, wvars, evars, lvars, rvars, envvars>>

vars == <<vmvars, gcvars, restvars>>

\* no Program yet
NotBuilt == [done |-> FALSE, program |-> [code |-> <<>>, constants |-> <<>>,
                                          num_variables |-> 0, variable_names |-> <<>>]]

NoCalls == [patches |-> <<>>, consts |-> <<>>, names |-> <<>>, refused |-> <<>>]

\* no builder at work
BuilderIdle ==
    /\ builder = BuilderDefault
    /\ pending = {}
    /\ built = NotBuilt
    /\ bopts = OptionsDefault
    /\ bhist = NoCalls

\* the words of a Value (value.rs:57-69), in a word of ValueReprBits bits
ValueReprBits == 8
ValueReprMod == 2 ^ ValueReprBits
TAG_MASK == 7
TAG_MASK_INT == 1

Some(x) == [some |-> TRUE, v |-> x]
None == [some |-> FALSE, v |-> 0]

\* repr & mask, for a mask of low bits
LowBits(repr, mask) == repr % (mask + 1)

\* repr << k, the bits shifted out lost
ShiftLeft(repr, k) == (repr * (2 ^ k)) % ValueReprMod

\* `as ValueRepr` of a signed word, and `as IntegerInner` of a word
AsUnsigned(i) == i % ValueReprMod
AsSigned(repr) == IF repr >= ValueReprMod \div 2 THEN repr - ValueReprMod ELSE repr

\* From<Integer>: (inner << TAG_INT_SHIFT) | TAG_INT; the shift leaves bit 0 clear
Value_from_integer(i) == ShiftLeft(AsUnsigned(i), TAG_INT_SHIFT) + TAG_INT

\* From<Boolean>
Value_from_boolean(b) == IF b THEN REPR_TRUE ELSE REPR_FALSE

\* From<Block>: (repr << TAG_SHIFT) | TAG_BLOCK after the debug_assert_eq!
\* that the shift loses nothing; the shift leaves the tag bits clear
Value_from_block(j, debug) ==
    [ok |-> ~(debug /\ ShiftLeft(j, TAG_SHIFT) \div (2 ^ TAG_SHIFT) # j),
     repr |-> ShiftLeft(j, TAG_SHIFT) + TAG_BLOCK]

\* Value::from_alloc: the pointer itself
Value_from_alloc(ptr) == ptr

Value_is_null(repr) == repr = REPR_NULL

Value_is_alloc_or_null(repr) == LowBits(repr, TAG_MASK) = 0

Value_is_alloc(repr) == Value_is_alloc_or_null(repr) /\ ~Value_is_null(repr)

\* the shift of the unsigned word
Value_as_integer_logical(repr) ==
    IF LowBits(repr, TAG_MASK_INT) = TAG_INT
    THEN Some(repr \div (2 ^ TAG_INT_SHIFT))
    ELSE None

\* Value::as_integer: repr as IntegerInner >> TAG_INT_SHIFT, an arithmetic shift
Value_as_integer(repr) ==
    IF LowBits(repr, TAG_MASK_INT) = TAG_INT
    THEN Some(AsSigned(repr) \div (2 ^ TAG_INT_SHIFT))
    ELSE None

Value_as_boolean(repr) ==
    IF repr = REPR_TRUE THEN Some(TRUE)
    ELSE IF repr = REPR_FALSE THEN Some(FALSE)
    ELSE None

\* a test of the TAG_BLOCK bit alone
Value_as_block_by_bit(repr) ==
    IF (repr \div TAG_BLOCK) % 2 = 1
    THEN Some(repr \div (2 ^ TAG_SHIFT))
    ELSE None

\* Value::as_block: repr as usize >> TAG_SHIFT
Value_as_block(repr) ==
    IF LowBits(repr, TAG_MASK) = TAG_BLOCK
    THEN Some(repr \div (2 ^ TAG_SHIFT))
    ELSE None

\* what every cast says of a word
Classify(repr) ==
    [null |-> Value_is_null(repr), boolean |-> Value_as_boolean(repr),
     integer |-> Value_as_integer(repr), block |-> Value_as_block(repr),
     alloc |-> Value_is_alloc(repr)]

Made(kind, arg, repr) == [kind |-> kind, arg |-> arg, is |-> Classify(repr)]

\* Value::default(): NULL
ValueIdle == val = REPR_NULL /\ made = Made("null", 0, REPR_NULL)

\* nothing compared
EqIdle == cmp = [lhs |-> REPR_NULL, rhs |-> REPR_NULL, eq |-> TRUE, qe |-> TRUE, self |-> TRUE]

\* List(None), and the four variants of Inner
ListEmpty == <<"None">>
Inner_Boxed(v) == <<"Boxed", v>>
Inner_Slice(slice) == <<"Slice", slice>>
Inner_Cons(lhs, rhs) == <<"Cons", lhs, rhs>>
Inner_Repeat(list, amount) == <<"Repeat", list, amount>>

NoListOp == [op |-> "none", panic |-> FALSE, eq |-> FALSE]
NoLaw == [name |-> "none"]

\* no list at work
ListIdle ==
    /\ la = ListEmpty
    /\ lb = ListEmpty
    /\ limpl = "value/list.rs"
    /\ lops = 0
    /\ lres = NoListOp
    /\ law = NoLaw

\* no call of Vm::run
NoRet == [k |-> "none", at |-> 0, wraps |-> 0, by |-> 0, snapshot |-> <<>>]
NoRun == [current_index |-> 0, callstack |-> <<>>, stack |-> 0, frames |-> <<>>,
          ret |-> NoRet, left |-> <<>>]
RunIdle == nested = NoRun

\* no replacement, nothing to read, no call made
NoReplacement == [k |-> "None", v |-> <<>>]
NoPromptOp == [op |-> "none", n |-> 0]
NoVariables == [variables |-> {}, cells |-> <<>>]
NoHandles == [n |-> 0, handles |-> <<>>, op |-> "none", h |-> 0, name |-> "", r |-> None,
              assigned |-> <<>>]
PromptIdle ==
    /\ prompt = [default |-> <<>>, replacement |-> NoReplacement]
    /\ phist = NoPromptOp
VariablesIdle ==
    /\ environment = NoVariables
    /\ ehist = NoHandles
EnvIdle == PromptIdle /\ VariablesIdle

RestIdle == BuilderIdle /\ ValueIdle /\ EqIdle /\ ListIdle /\ RunIdle /\ EnvIdle

Depth == Len(frames) + Len(jumpstack)

Reverse(q) == [i \in 1..Len(q) |-> q[Len(q) + 1 - i]]

\* the expressions whose first instruction is at pc, outermost first
SpansAt(pc) == SelectSeq(Reverse(prog.spans), LAMBDA sp : sp.s = pc)

\* the entries of open whose code has just been run to its end
\* (above them are only the expressions entered at this very step, now)
IsClosing(i, op, pc, d, now) ==
    /\ op[i].e = pc /\ op[i].d = d
    /\ \A j \in (i + 1)..Len(op) : (op[j].e = pc /\ op[j].d = d) \/ op[j].t0 = now

StillOpen(op, pc, d, now) ==
    LET kept == SelectSeq([i \in 1..Len(op) |-> [op[i] EXCEPT !.i = i]],
                          LAMBDA m : ~IsClosing(m.i, op, pc, d, now))
    IN [i \in 1..Len(kept) |-> [kept[i] EXCEPT !.i = 0]]

AlreadyOpen(op, sp, d) == \E i \in 1..Len(op) : op[i].s = sp.s /\ op[i].e = sp.e /\ op[i].d = d

Entering(op, pc, st, d, t0, out) ==
    LET new == SelectSeq(SpansAt(pc), LAMBDA sp : ~AlreadyOpen(op, sp, d))
    IN [i \in 1..Len(new) |-> [s |-> new[i].s, e |-> new[i].e, ts |-> new[i].ts, te |-> new[i].te,
                               f |-> new[i].f, d |-> d, base |-> st, t0 |-> t0, out |-> out, i |-> 0]]

Top(st) == IF Len(st) = 0 THEN NoneV ELSE st[Len(st)]

\* the state of the VM after a step, starting from the state after the
\* fetch: the index advanced and the operands popped
Instr == prog.program.code[current_index + 1]
Opcode == Instr.op
Offset == Instr.off
Fetched == status = "running" /\ current_index < Len(prog.program.code) /\ Len(trace) < MaxSteps
Enough == Arity(Opcode) <= Len(stack)
Args == SubSeq(stack, Len(stack) - Arity(Opcode) + 1, Len(stack))
Rest == SubSeq(stack, 1, Len(stack) - Arity(Opcode))

Cur == [current_index |-> current_index + 1, stack |-> Rest, variables |-> variables,
        callstack |-> callstack, frames |-> frames, jumpstack |-> jumpstack,
        known_blocks |-> known_blocks, output |-> output, status |-> status, result |-> result]

Commit(n) ==
    /\ current_index' = n.current_index
    /\ stack' = n.stack
    /\ variables' = n.variables
    /\ callstack' = n.callstack
    /\ frames' = n.frames
    /\ jumpstack' = n.jumpstack
    /\ output' = n.output
    /\ status' = n.status
    /\ result' = n.result
    /\ known_blocks' = n.known_blocks
    /\ trace' = Append(trace, [pc |-> current_index, op |-> Opcode, d |-> Depth,
                               to |-> n.current_index, st |-> n.stack])
    /\ LET d2 == Len(n.frames) + Len(n.jumpstack)
           kept == StillOpen(open, current_index, Depth, Len(trace))
       IN open' = IF n.status = "running"
                  THEN kept \o Entering(kept, n.current_index, n.stack, d2, Len(trace) + 1, n.output)
                  ELSE kept
    /\ UNCHANGED <<prog, stacktrace, debug_assertions, opts>>
    /\ UNCHANGED <<gcvars, restvars>>

\* a failed debug assertion panics; without debug assertions the behaviour
\* is undefined
Broken(n, why) == [n EXCEPT !.status = IF debug_assertions THEN "panic" ELSE "ub", !.result = Err(why)]

\* Vm::run after run_inner returned: every active call of run, innermost
\* first, wraps the error (stacktrace), pops its callstack entry, asserts
\* the stack length and restores the index
Returned(n, res) ==
    IF debug_assertions /\ \E i \in 1..Len(n.frames) : n.frames[i].stack_len # Len(n.stack)
    THEN Broken(n, <<"debug_assert_eq!(stack_len, self.stack.len())", res.v>>)
    ELSE [n EXCEPT !.status = IF res.k = "ok" THEN "done" ELSE "error",
                   !.result = IF res.k = "err" /\ stacktrace THEN Err(<<"Stacktrace", res.v>>) ELSE res,
                   !.current_index = n.frames[1].index,
                   !.frames = <<>>,
                   !.callstack = <<>>,
                   !.jumpstack = <<>>]

\* the outcome of an operator: its value goes to the vacated slot, an error
\* leaves run_inner with `?`
Finish(n, r) ==
    CASE r.k = "ok" -> [n EXCEPT !.stack = Append(@, r.v)]
      [] r.k = "err" -> Returned(n, r)
      [] r.k = "bug" -> Broken(n, r.v)

(***************************************************************************)
(* The heap and the collector.  A value is a scalar or a reference to a    *)
(* cell; cell 0 is KnString::EMPTY, cell 1 the string constant of the      *)
(* program, the cells from 2 on are handed out by the allocator.           *)
(***************************************************************************)
MaxCells == 2
MaxGcStack == 3
MaxGcSteps == 6

Ref(c) == [t |-> "ref", v |-> c]
is_alloc(x) == x.t = "ref"

Cells == 0..(MaxCells + 1)
Cell(static, kind, data) ==
    [allocated |-> TRUE, marked |-> FALSE, static |-> static, kind |-> kind, data |-> data]
FreeCell == [allocated |-> FALSE, marked |-> FALSE, static |-> FALSE, kind |-> "str", data |-> <<>>]

\* EMPTY_INNER: flags = Static, no contents
EMPTY_INNER == Cell(TRUE, "str", <<>>)
EMPTY == Ref(0)

\* the constant pool of the program: a static string and an integer
GcConstants == <<Ref(1), IntV(12)>>

\* Mark for KnString: fetch_or(GcMarked)
KnString_mark(h, c) == [h EXCEPT ![c].marked = TRUE]

\* Sweep::deallocate for KnString: the payload freed, the cell returned to
\* the free list
KnString_deallocate(cell) == [FreeCell EXCEPT !.static = cell.static]

\* Sweep for KnString: old = fetch_and(!GcMarked); deallocate when the old
\* flags had no mark
KnString_sweep(cell) ==
    LET old == cell
        cleared == [cell EXCEPT !.marked = FALSE]
    IN IF ~old.marked THEN KnString_deallocate(cleared) ELSE cleared

\* the sweep of a list cell: freed when not static and unmarked, its mark
\* cleared otherwise
List_sweep(cell) ==
    IF ~cell.static /\ ~cell.marked THEN [FreeCell EXCEPT !.static = cell.static]
    ELSE [cell EXCEPT !.marked = FALSE]

RECURSIVE ValueInner_mark(_, _)
RECURSIVE MarkAll(_, _)

\* GarbageCollected::mark for Value: only allocated values have a cell
Value_mark(h, x) == IF is_alloc(x) THEN ValueInner_mark(h, x.v) ELSE h

\* mark every value of a sequence, in order
MarkAll(h, xs) == IF Len(xs) = 0 THEN h ELSE MarkAll(Value_mark(h, xs[1]), Tail(xs))

\* ValueInner::mark: a string sets its mark; a list sets its mark and
\* marks the values it holds
ValueInner_mark(h, c) ==
    IF h[c].marked \/ ~h[c].allocated THEN h
    ELSE IF h[c].kind = "str" THEN KnString_mark(h, c)
    ELSE MarkAll([h EXCEPT ![c].marked = TRUE], h[c].data)

RECURSIVE SetToSeq(_)
SetToSeq(S) == IF S = {} THEN <<>>
               ELSE LET x == CHOOSE y \in S : TRUE IN <<x>> \o SetToSeq(S \ {x})

\* Program::mark: the constants
Program_mark(h) == MarkAll(h, GcConstants)

\* a mark that starts from the program alone
Vm_mark_program_only(h) == Program_mark(h)

\* Vm::mark: the program, the stack, the set variables, the dynamic
\* variables
Vm_mark(h) ==
    LET h1 == Program_mark(h)
        h2 == MarkAll(h1, gc_stack)
        h3 == MarkAll(h2, SelectSeq(gc_variables, LAMBDA x : x # NoneV))
    IN MarkAll(h3, SetToSeq(gc_dynamic))

\* the sweep: every allocated cell is swept as its kind sweeps
Sweep(h) == [c \in DOMAIN h |->
               IF ~h[c].allocated THEN h[c]
               ELSE IF h[c].kind = "str" THEN KnString_sweep(h[c]) ELSE List_sweep(h[c])]

\* a cycle: mark from Vm::mark and from the GcRoot handles alive, then sweep
AfterMark(h, gcroots) == MarkAll(Vm_mark(h), gcroots)
Cycle(h, gcroots) == Sweep(AfterMark(h, gcroots))

FreeList(h) == {c \in DOMAIN h : ~h[c].allocated}

\* Gc::alloc_value_inner: a cell of the free list; when the list is empty
\* a cycle runs first
Allocation(h, gcroots) ==
    IF FreeList(h) # {}
    THEN [ok |-> TRUE, h |-> h, c |-> SetMin(FreeList(h)), collected |-> FALSE]
    ELSE LET h2 == Cycle(h, gcroots)
         IN IF FreeList(h2) = {} THEN [ok |-> FALSE, h |-> h2, c |-> 0, collected |-> TRUE]
            ELSE [ok |-> TRUE, h |-> h2, c |-> SetMin(FreeList(h2)), collected |-> TRUE]

\* the values a cycle should keep: constants, stack, set variables,
\* dynamic variables
RootValues == GcConstants \o gc_stack \o SelectSeq(gc_variables, LAMBDA x : x # NoneV)
              \o SetToSeq(gc_dynamic)

\* the record of a cycle run on h
CycleRecord(h, gcroots, by) ==
    [n |-> last.n + 1, pre |-> h, post |-> Cycle(h, gcroots), roots |-> RootValues, by |-> by,
     handles |-> gcroots,
     marked |-> {c \in DOMAIN h : AfterMark(h, gcroots)[c].marked}]

Idle == [op |-> "none", phase |-> "idle", args |-> <<>>, temps |-> <<>>, result |-> NoneV,
         base |-> 0, collected |-> FALSE]

GcHeap0 == [c \in Cells |-> IF c = 0 THEN EMPTY_INNER
                            ELSE IF c = 1 THEN Cell(TRUE, "str", <<"k">>) ELSE FreeCell]

GcNew ==
    /\ heap = GcHeap0
    /\ gc_stack = <<>>
    /\ gc_variables = <<NoneV, NoneV>>
    /\ gc_dynamic = {}
    /\ inflight = Idle
    /\ last = [n |-> 0, pre |-> GcHeap0, post |-> GcHeap0, roots |-> <<>>, by |-> "none", handles |-> <<>>,
               marked |-> {}]
    /\ gc_steps = 0

IsString(h, x) == is_alloc(x) /\ h[x.v].kind = "str"

BetweenOpcodes == inflight.op = "none" /\ gc_steps < MaxGcSteps
GcStep == gc_steps' = gc_steps + 1 /\ UNCHANGED <<vmvars, restvars>>

\* Opcode::PushConstant
GcPushConstant ==
    /\ BetweenOpcodes /\ Len(gc_stack) < MaxGcStack
    /\ \E k \in 1..Len(GcConstants) : gc_stack' = Append(gc_stack, GcConstants[k])
    /\ inflight' = Idle
    /\ GcStep /\ UNCHANGED <<heap, gc_variables, gc_dynamic, last>>

\* Opcode::Prompt: the line read is a new string (KnString::EMPTY when it
\* is empty), pushed from its GcRoot
GcPrompt ==
    /\ BetweenOpcodes /\ Len(gc_stack) < MaxGcStack
    /\ \E line \in {<<>>, <<"a">>} :
          IF line = <<>>
          THEN gc_stack' = Append(gc_stack, EMPTY) /\ UNCHANGED <<heap, last>>
          ELSE LET a == Allocation(heap, <<>>)
               IN /\ a.ok
                  /\ heap' = [a.h EXCEPT ![a.c] = Cell(FALSE, "str", line)]
                  /\ gc_stack' = Append(gc_stack, Ref(a.c))
                  /\ last' = IF a.collected THEN CycleRecord(heap, <<>>, "allocation") ELSE last
    /\ inflight' = Idle
    /\ GcStep /\ UNCHANGED <<gc_variables, gc_dynamic>>

\* Opcode::SetVar
GcSetVar ==
    /\ BetweenOpcodes /\ Len(gc_stack) > 0
    /\ \E i \in 1..Len(gc_variables) : gc_variables' = [gc_variables EXCEPT ![i] = Top(gc_stack)]
    /\ inflight' = Idle
    /\ GcStep /\ UNCHANGED <<heap, gc_stack, gc_dynamic, last>>

\* Opcode::SetDynamicVar: the name (a string no variable of the program
\* has) and the value are popped, the value is stored under the name and
\* pushed back
GcSetDynamicVar ==
    /\ BetweenOpcodes /\ Len(gc_stack) >= 2
    /\ LET name == gc_stack[Len(gc_stack) - 1]
           value == gc_stack[Len(gc_stack)]
       IN /\ IsString(heap, name)
          /\ gc_dynamic' = gc_dynamic \cup {value}
          /\ gc_stack' = Append(SubSeq(gc_stack, 1, Len(gc_stack) - 2), value)
    /\ inflight' = Idle
    /\ GcStep /\ UNCHANGED <<heap, gc_variables, last>>

\* Opcode::Pop
GcPop ==
    /\ BetweenOpcodes /\ Len(gc_stack) > 0
    /\ gc_stack' = SubSeq(gc_stack, 1, Len(gc_stack) - 1)
    /\ inflight' = Idle
    /\ GcStep /\ UNCHANGED <<heap, gc_variables, gc_dynamic, last>>

\* run_inner: the operands of Add or Box are popped with set_len before
\* the operator's body runs
GcOperatorBegin ==
    /\ BetweenOpcodes
    /\ \E op \in {"Add", "Box"} :
          /\ Len(gc_stack) >= Arity(op)
          /\ LET args == SubSeq(gc_stack, Len(gc_stack) - Arity(op) + 1, Len(gc_stack))
             IN /\ op = "Add" => (IsString(heap, args[1]) /\ (IsString(heap, args[2]) \/ args[2].t = "int"))
                /\ inflight' = [Idle EXCEPT !.op = op, !.phase = "begun", !.args = args,
                                            !.base = Len(gc_stack) - Arity(op)]
          /\ gc_stack' = SubSeq(gc_stack, 1, Len(gc_stack) - Arity(op))
    /\ GcStep /\ UNCHANGED <<heap, gc_variables, gc_dynamic, last>>

NeedsCoercion == inflight.op = "Add" /\ inflight.args[2].t = "int" /\ inflight.temps = <<>>

\* kn_plus: rhs.to_knstring: the string of an integer is a new cell held by
\* a GcRoot
GcOperatorCoerce ==
    /\ inflight.phase = "begun" /\ NeedsCoercion
    /\ LET a == Allocation(heap, <<>>)
       IN /\ a.ok
          /\ heap' = [a.h EXCEPT ![a.c] = Cell(FALSE, "str", IntToStr(inflight.args[2].v))]
          /\ inflight' = [inflight EXCEPT !.temps = <<Ref(a.c)>>, !.collected = @ \/ a.collected]
          /\ last' = IF a.collected THEN CycleRecord(heap, <<>>, "operator") ELSE last
    /\ GcStep /\ UNCHANGED <<gc_stack, gc_variables, gc_dynamic>>

\* what the operator reads from a cell: its data, or whatever lies there
\* once the cell was freed
ReadCell(h, x) == IF h[x.v].allocated THEN h[x.v].data ELSE <<"?">>

\* kn_plus: concat, List::boxed: the cell of the result
GcOperatorAllocate ==
    /\ inflight.phase = "begun" /\ ~NeedsCoercion
    /\ LET a == Allocation(heap, inflight.temps)
           rhs == IF inflight.temps # <<>> THEN inflight.temps[1] ELSE inflight.args[2]
           cell == IF inflight.op = "Box" THEN Cell(FALSE, "list", inflight.args)
                   ELSE Cell(FALSE, "str", ReadCell(a.h, inflight.args[1]) \o ReadCell(a.h, rhs))
       IN /\ a.ok
          /\ heap' = [a.h EXCEPT ![a.c] = cell]
          /\ inflight' = [inflight EXCEPT !.phase = "allocated", !.result = Ref(a.c),
                                          !.collected = @ \/ a.collected]
          /\ last' = IF a.collected THEN CycleRecord(heap, inflight.temps, "operator") ELSE last
    /\ GcStep /\ UNCHANGED <<gc_stack, gc_variables, gc_dynamic>>

\* the result written to the vacated slot, the length of the stack restored
GcOperatorFinish ==
    /\ inflight.phase = "allocated"
    /\ gc_stack' = Append(gc_stack, inflight.result)
    /\ inflight' = [inflight EXCEPT !.op = "none", !.phase = "finished", !.temps = <<>>]
    /\ GcStep /\ UNCHANGED <<heap, gc_variables, gc_dynamic, last>>

\* a collection after an opcode step
GcCollect ==
    /\ BetweenOpcodes
    /\ heap' = Cycle(heap, <<>>)
    /\ last' = CycleRecord(heap, <<>>, "step")
    /\ inflight' = Idle
    /\ GcStep /\ UNCHANGED <<gc_stack, gc_variables, gc_dynamic>>

\* Vm::new, for a program and a build
VmNew(src) ==
    /\ stacktrace \in BOOLEAN
    /\ debug_assertions \in BOOLEAN
    /\ opts \in {OptionsDefault, OptionsStrict}
    /\ prog = parse_program(src, opts)
    /\ prog.ok
    /\ current_index = 0
    /\ stack = <<>>
    /\ variables = [i \in 1..prog.program.num_variables |-> NoneV]
    /\ callstack = <<>>
    /\ known_blocks = {}
    /\ frames = <<>>
    /\ jumpstack = <<>>
    /\ output = <<>>
    /\ status = "new"
    /\ result = NullV
    /\ trace = <<>>
    /\ open = <<>>

Init ==
    /\ \/ \E i \in 1..NumSources : VmNew(Sources[i])
       \/ \E f \in {"&", "|"}, i \in 1..NumOperands, j \in 1..NumOperands : VmNew(LogicalSource(f, i, j))
    /\ GcNew
    /\ RestIdle

\* run_entire_program_without_argv: Vm::run(Block(0)) up to run_inner
RunEntireProgram ==
    /\ status = "new"
    /\ current_index' = 0
    /\ frames' = <<[index |-> current_index, stack_len |-> Len(stack)]>>
    /\ callstack' = IF stacktrace THEN Append(callstack, current_index) ELSE callstack
    /\ status' = "running"
    /\ open' = Entering(<<>>, 0, stack, 1, 0, output)
    /\ UNCHANGED <<prog, stacktrace, debug_assertions, opts, stack, variables, known_blocks,
                   jumpstack, output, result, trace>>
    /\ UNCHANGED <<gcvars, restvars>>

\* debug_assert!(opcode.arity() <= self.stack.len()) and the set_len below it
ArityUnderflow ==
    /\ Fetched /\ ~Enough
    /\ Commit(Broken([Cur EXCEPT !.stack = stack], "opcode.arity() <= self.stack.len()"))

ExecPushConstant ==
    /\ Fetched /\ Enough /\ Opcode = "PushConstant"
    /\ Commit([Cur EXCEPT !.stack = Append(Rest, prog.program.constants[Offset + 1])])

ExecJump ==
    /\ Fetched /\ Enough /\ Opcode = "Jump"
    /\ Commit([Cur EXCEPT !.current_index = Offset])

ExecJumpIfTrue ==
    /\ Fetched /\ Enough /\ Opcode = "JumpIfTrue"
    /\ LET c == ToBoolean(Args[1], opts)
       IN Commit(IF c.k # "ok" THEN Returned(Cur, c)
                 ELSE IF c.v THEN [Cur EXCEPT !.current_index = Offset] ELSE Cur)

ExecJumpIfFalse ==
    /\ Fetched /\ Enough /\ Opcode = "JumpIfFalse"
    /\ LET c == ToBoolean(Args[1], opts)
       IN Commit(IF c.k # "ok" THEN Returned(Cur, c)
                 ELSE IF ~c.v THEN [Cur EXCEPT !.current_index = Offset] ELSE Cur)

\* a read that yields null for an unset slot
get_variable_or_null(offset) ==
    IF variables[offset + 1] = NoneV THEN Ok(NullV) ELSE Ok(variables[offset + 1])

\* Vm::get_variable
get_variable(offset) ==
    IF variables[offset + 1] = NoneV THEN Err(<<"UndefinedVariable", prog.program.variable_names[offset + 1]>>)
    ELSE Ok(variables[offset + 1])

ExecGetVar ==
    /\ Fetched /\ Enough /\ Opcode = "GetVar"
    /\ Commit(Finish(Cur, get_variable(Offset)))

\* a store that writes every slot
set_every_variable(slots, offset, value) == [i \in DOMAIN slots |-> value]

\* Vm::set_variable: the slot written
set_variable(slots, offset, value) == [slots EXCEPT ![offset + 1] = value]

\* Vm::set_variable: the name recorded for a block (stacktrace only)
insert_known_block(kb, offset, value) ==
    IF stacktrace /\ as_block(value)
    THEN {e \in kb : e[1] # value.v} \cup {<<value.v, prog.program.variable_names[offset + 1]>>}
    ELSE kb

ExecSetVar ==
    /\ Fetched /\ Enough /\ Opcode = "SetVar"
    /\ Commit(IF Len(Rest) = 0 THEN Broken(Cur, "last!() of an empty stack")
              ELSE [Cur EXCEPT !.variables = set_variable(variables, Offset, Top(Rest)),
                               !.known_blocks = insert_known_block(known_blocks, Offset, Top(Rest))])

PromptLines == {StrV(<<>>), StrV(<<"a">>)}

ExecPrompt ==
    /\ Fetched /\ Enough /\ Opcode = "Prompt"
    /\ \E line \in PromptLines \cup {NullV} : Commit([Cur EXCEPT !.stack = Append(Rest, line)])

RandomInts == {0, 3}

ExecRandom ==
    /\ Fetched /\ Enough /\ Opcode = "Random"
    /\ \E r \in RandomInts : Commit([Cur EXCEPT !.stack = Append(Rest, IntV(r))])

ExecDup ==
    /\ Fetched /\ Enough /\ Opcode = "Dup"
    /\ Commit(IF Len(Rest) = 0 THEN Broken(Cur, "last!() of an empty stack")
              ELSE [Cur EXCEPT !.stack = Append(Rest, Top(Rest))])

\* Opcode::Dump: kn_dump of last!(), after the operand was popped
ExecDump ==
    /\ Fetched /\ Enough /\ Opcode = "Dump"
    /\ Commit(IF Len(Rest) = 0 THEN Broken(Cur, "last!() of an empty stack")
              ELSE LET w == kn_dump(Top(Rest), opts)
                   IN IF w.k # "ok" THEN Returned(Cur, w)
                      ELSE [Cur EXCEPT !.output = Append(@, w.v)])

\* what the caller of Vm::run does with the value: the Call arm pushes it,
\* the host receives it
AfterRun(n, value) ==
    IF debug_assertions /\ n.frames[Len(n.frames)].stack_len # Len(n.stack)
    THEN Broken(n, <<"debug_assert_eq!(stack_len, self.stack.len())", value>>)
    ELSE IF Len(n.frames) = 1
    THEN Returned(n, Ok(value))
    ELSE [n EXCEPT !.current_index = n.frames[Len(n.frames)].index,
                   !.frames = SubSeq(@, 1, Len(@) - 1),
                   !.callstack = SubSeq(@, 1, Len(@) - 1),
                   !.stack = Append(@, value)]

ExecReturn ==
    /\ Fetched /\ Enough /\ Opcode = "Return"
    /\ Commit(IF stacktrace THEN AfterRun(Cur, Args[1])
              ELSE IF Len(jumpstack) > 0
              THEN [Cur EXCEPT !.current_index = jumpstack[Len(jumpstack)],
                               !.jumpstack = SubSeq(@, 1, Len(@) - 1)]
              ELSE IF Len(Rest) = 0 THEN Broken(Cur, "<bug: pop when nothing left>")
              ELSE AfterRun([Cur EXCEPT !.stack = SubSeq(Rest, 1, Len(Rest) - 1)], Top(Rest)))

\* Opcode::Call; Value::kn_call enters Vm::run
ExecCall ==
    /\ Fetched /\ Enough /\ Opcode = "Call"
    /\ Depth < MaxDepth
    /\ Commit(IF ~as_block(Args[1]) THEN Returned(Cur, TypeError(Args[1], "CALL"))
              ELSE IF ~stacktrace
              THEN [Cur EXCEPT !.jumpstack = Append(@, current_index + 1),
                               !.current_index = Args[1].v]
              ELSE [Cur EXCEPT !.frames = Append(@, [index |-> current_index + 1, stack_len |-> Len(Rest)]),
                               !.callstack = Append(@, current_index + 1),
                               !.current_index = Args[1].v])

ExecQuit ==
    /\ Fetched /\ Enough /\ Opcode = "Quit"
    /\ LET c == ToInteger(Args[1], opts)
       IN Commit(Returned(Cur, IF c.k # "ok" THEN c ELSE Err(<<"Exit", c.v>>)))

\* an OUTPUT that knows no backslash
OutputText_line(s) == s \o <<"\n">>

\* strip_suffix('\\'), else the line with its newline
OutputText(s) ==
    IF Len(s) > 0 /\ s[Len(s)] = "\\" THEN SubSeq(s, 1, Len(s) - 1) ELSE s \o <<"\n">>

ExecOutput ==
    /\ Fetched /\ Enough /\ Opcode = "Output"
    /\ LET c == ToKnString(Args[1], opts)
       IN Commit(IF c.k # "ok" THEN Finish(Cur, c)
                 ELSE [Cur EXCEPT !.output = Append(@, OutputText(c.v)), !.stack = Append(Rest, NullV)])

ExecLength ==
    /\ Fetched /\ Enough /\ Opcode = "Length"
    /\ Commit(Finish(Cur, kn_length(Args[1], opts)))

UnaryTarget(op, a, o) ==
    CASE op = "Not" -> kn_not(a, o)
      [] op = "Negate" -> kn_negate(a, o)
      [] op = "Ascii" -> kn_ascii(a, o)
      [] op = "Head" -> kn_head(a, o)
      [] op = "Tail" -> kn_tail(a, o)

ExecUnary ==
    /\ Fetched /\ Enough /\ Opcode \in {"Not", "Negate", "Ascii", "Head", "Tail"}
    /\ Commit(Finish(Cur, UnaryTarget(Opcode, Args[1], opts)))

ExecBox ==
    /\ Fetched /\ Enough /\ Opcode = "Box"
    /\ Commit([Cur EXCEPT !.stack = Append(Rest, ListV(<<Args[1]>>))])

ExecPop ==
    /\ Fetched /\ Enough /\ Opcode = "Pop"
    /\ Commit(Cur)

BinaryTarget(op, a, b, o) ==
    CASE op = "Add" -> kn_plus(a, b, o)
      [] op = "Sub" -> kn_minus(a, b, o)
      [] op = "Mul" -> kn_asterisk(a, b, o)
      [] op = "Div" -> kn_slash(a, b, o)
      [] op = "Mod" -> kn_percent(a, b, o)
      [] op = "Pow" -> kn_caret(a, b, o)

ExecArith ==
    /\ Fetched /\ Enough /\ Opcode \in {"Add", "Sub", "Mul", "Div", "Mod", "Pow"}
    /\ Commit(Finish(Cur, BinaryTarget(Opcode, Args[1], Args[2], opts)))

Comparison(op, a, b, o) ==
    IF op = "Eql"
    THEN LET r == kn_equals(a, b, o) IN IF r.k # "ok" THEN r ELSE Ok(BoolV(r.v))
    ELSE LET r == kn_compare(a, b, o)
         IN IF r.k # "ok" THEN r
            ELSE Ok(BoolV(IF op = "Lth" THEN r.v = 0 - 1 ELSE r.v = 1))

ExecCompare ==
    /\ Fetched /\ Enough /\ Opcode \in {"Lth", "Gth", "Eql"}
    /\ Commit(Finish(Cur, Comparison(Opcode, Args[1], Args[2], opts)))

ExecGet ==
    /\ Fetched /\ Enough /\ Opcode = "Get"
    /\ Commit(Finish(Cur, kn_get(Args[1], Args[2], Args[3], opts)))

ExecSet ==
    /\ Fetched /\ Enough /\ Opcode = "Set"
    /\ Commit(Finish(Cur, kn_set(Args[1], Args[2], Args[3], Args[4], opts)))

Next ==
    \/ RunEntireProgram
    \/ ArityUnderflow
    \/ ExecPushConstant
    \/ ExecJump
    \/ ExecJumpIfTrue
    \/ ExecJumpIfFalse
    \/ ExecGetVar
    \/ ExecSetVar
    \/ ExecPrompt
    \/ ExecRandom
    \/ ExecDup
    \/ ExecDump
    \/ ExecReturn
    \/ ExecCall
    \/ ExecQuit
    \/ ExecOutput
    \/ ExecLength
    \/ ExecUnary
    \/ ExecBox
    \/ ExecPop
    \/ ExecArith
    \/ ExecCompare
    \/ ExecGet
    \/ ExecSet

Spec == Init /\ [][Next]_vars

\* the machine while the collector's steps are explored
VmIdle == VmNew(Sources[1]) /\ stacktrace /\ debug_assertions /\ opts = OptionsDefault

InitGc == VmIdle /\ GcNew /\ RestIdle

NextGc ==
    \/ GcPushConstant
    \/ GcPrompt
    \/ GcSetVar
    \/ GcSetDynamicVar
    \/ GcPop
    \/ GcOperatorBegin
    \/ GcOperatorCoerce
    \/ GcOperatorAllocate
    \/ GcOperatorFinish
    \/ GcCollect

SpecGc == InitGc /\ [][NextGc]_vars

(***************************************************************************)
(* The Builder driven directly (program/builder.rs): any sequence of its   *)
(* public operations, then build.  A DeferredJump is consumed by jump_to,  *)
(* so pending holds those still to be patched; build is called under its   *)
(* safety contract, "all deferred jumps have been jump_to'd".              *)
(***************************************************************************)
MaxCode == 3

BuilderNames == {"a", "b"}
BuilderConstants == {IntV(0), StrV(<<"a">>)}
BuilderWhens == {"False", "Always"}

\* at most MaxCode calls that write a word or are refused
Building == ~built.done /\ Len(builder.code) + Len(bhist.refused) < MaxCode

BuilderFrame == UNCHANGED <<vmvars, gcvars, wvars, evars, lvars, rvars, envvars>>

\* Builder::opcode_without_offset
BuilderOpcode ==
    /\ Building
    /\ builder' = opcode_without_offset(builder, "Add")
    /\ UNCHANGED <<pending, built, bopts, bhist>>
    /\ BuilderFrame

\* Builder::push_constant
BuilderPushConstant ==
    /\ Building
    /\ \E v \in BuilderConstants :
        /\ builder' = push_constant(builder, v)
        /\ bhist' = [bhist EXCEPT !.consts = Append(@, [value |-> v, at |-> jump_index(builder)])]
    /\ UNCHANGED <<pending, built, bopts>>
    /\ BuilderFrame

\* the history of a get_variable or set_variable call with result r
Named(r, name) ==
    IF r.ok
    THEN [bhist EXCEPT !.names = Append(@, [name |-> name, at |-> jump_index(builder),
                                          len |-> variables_len(builder)])]
    ELSE [bhist EXCEPT !.refused = Append(@, [name |-> name, len |-> variables_len(builder)])]

\* Builder::get_variable
BuilderGetVariable ==
    /\ Building
    /\ \E name \in BuilderNames :
        LET r == Builder_get_variable(builder, name, bopts)
        IN builder' = r.b /\ bhist' = Named(r, name)
    /\ UNCHANGED <<pending, built, bopts>>
    /\ BuilderFrame

\* Builder::set_variable
BuilderSetVariable ==
    /\ Building
    /\ \E name \in BuilderNames :
        LET r == Builder_set_variable(builder, name, bopts)
        IN builder' = r.b /\ bhist' = Named(r, name)
    /\ UNCHANGED <<pending, built, bopts>>
    /\ BuilderFrame

\* Builder::defer_jump
BuilderDeferJump ==
    /\ Building
    /\ \E when \in BuilderWhens :
        /\ builder' = defer_jump(builder)
        /\ pending' = pending \cup {[at |-> jump_index(builder), when |-> when]}
    /\ UNCHANGED <<built, bopts, bhist>>
    /\ BuilderFrame

\* the word at index in the code
WordAt(b, index) == b.code[index - b.base + 1]

\* DeferredJump::jump_to_current, after assert_eq!(0, builder.code[self.0])
BuilderJumpToCurrent ==
    /\ ~built.done
    /\ \E d \in pending :
        /\ WordAt(builder, d.at) = Placeholder
        /\ builder' = jump_to_current(builder, d.at, d.when)
        /\ pending' = pending \ {d}
        /\ bhist' = [bhist EXCEPT !.patches = Append(@, [at |-> d.at, to |-> jump_index(builder)])]
    /\ UNCHANGED <<built, bopts>>
    /\ BuilderFrame

\* Builder::jump_to, with an index valid within the program so far
BuilderJumpTo ==
    /\ Building
    /\ \E when \in BuilderWhens, index \in builder.base..jump_index(builder) :
        /\ builder' = Builder_jump_to(builder, when, index)
        /\ bhist' = [bhist EXCEPT !.patches = Append(@, [at |-> jump_index(builder), to |-> index])]
    /\ UNCHANGED <<pending, built, bopts>>
    /\ BuilderFrame

\* Builder::build, called with no deferred jump outstanding
BuilderBuild ==
    /\ ~built.done
    /\ pending = {}
    /\ built' = [done |-> TRUE, program |-> build(builder)]
    /\ UNCHANGED <<builder, pending, bopts, bhist>>
    /\ BuilderFrame

\* a table of base names, each introduced by a GetVar that the code leaves out
BuilderWith(base) == [BuilderDefault EXCEPT !.base = base]

InitBuilder ==
    /\ VmIdle
    /\ GcNew
    /\ \E base \in {0, MAX_VARIABLE_COUNT} : builder = BuilderWith(base)
    /\ \E c \in BOOLEAN : bopts = [OptionsDefault EXCEPT !.variable_count = c]
    /\ pending = {}
    /\ built = NotBuilt
    /\ bhist = NoCalls
    /\ ValueIdle
    /\ EqIdle
    /\ RunIdle
    /\ EnvIdle
    /\ ListIdle

NextBuilder ==
    \/ BuilderOpcode
    \/ BuilderPushConstant
    \/ BuilderGetVariable
    \/ BuilderSetVariable
    \/ BuilderDeferJump
    \/ BuilderJumpToCurrent
    \/ BuilderJumpTo
    \/ BuilderBuild

SpecBuilder == InitBuilder /\ [][NextBuilder]_vars


(***************************************************************************)
(* The constructors of Value (value.rs), each followed by every cast of    *)
(* the word it made.  Integers are drawn from the whole signed word, block *)
(* indices from those that fit and some that do not, pointers from the     *)
(* non-null addresses aligned as ValueInner is.                            *)
(***************************************************************************)
ValueIntegers == (0 - ValueReprMod \div 2)..(ValueReprMod \div 2 - 1)
ValueBlocks == 0..(ValueReprMod \div 4 - 1)
ValuePointers == {8 * k : k \in 1..(ValueReprMod \div 8 - 1)}

ValueFrame == UNCHANGED <<vmvars, gcvars, bvars, evars, lvars, rvars, envvars>>

ValueNull ==
    /\ val' = REPR_NULL
    /\ made' = Made("null", 0, val')
    /\ ValueFrame

ValueFromBoolean ==
    /\ \E b \in BOOLEAN :
        /\ val' = Value_from_boolean(b)
        /\ made' = Made("boolean", b, val')
    /\ ValueFrame

ValueFromInteger ==
    /\ \E i \in ValueIntegers :
        /\ val' = Value_from_integer(i)
        /\ made' = Made("integer", i, val')
    /\ ValueFrame

\* the debug assertion failed: no Value
ValueFromBlock ==
    /\ \E j \in ValueBlocks :
        LET r == Value_from_block(j, debug_assertions)
        IN IF r.ok
           THEN val' = r.repr /\ made' = Made("block", j, val')
           ELSE val' = val /\ made' = [made EXCEPT !.kind = "panic", !.arg = j]
    /\ ValueFrame

ValueFromAlloc ==
    /\ \E ptr \in ValuePointers :
        /\ val' = Value_from_alloc(ptr)
        /\ made' = Made("alloc", ptr, val')
    /\ ValueFrame

InitValue ==
    /\ VmNew(Sources[1])
    /\ stacktrace
    /\ opts = OptionsDefault
    /\ GcNew
    /\ BuilderIdle
    /\ ValueIdle
    /\ EqIdle
    /\ RunIdle
    /\ EnvIdle
    /\ ListIdle

NextValue ==
    \/ ValueNull
    \/ ValueFromBoolean
    \/ ValueFromInteger
    \/ ValueFromBlock
    \/ ValueFromAlloc

SpecValue == InitValue /\ [][NextValue]_vars

(***************************************************************************)
(* Equality of Values (value.rs, impl PartialEq).  The heap holds strings  *)
(* and lists at aligned addresses: two allocations of the same bytes, the  *)
(* empty string and the empty list, and lists whose elements are words.    *)
(***************************************************************************)
HeapString(bytes) == [kind |-> "string", v |-> bytes]
HeapList(elems) == [kind |-> "list", v |-> elems]

ValueHeap ==
    [ptr \in {8 * k : k \in 1..9} |->
        CASE ptr = 8 -> HeapString(<<>>)
          [] ptr = 16 -> HeapString(<<"a">>)
          [] ptr = 24 -> HeapString(<<"a">>)
          [] ptr = 32 -> HeapString(<<"b">>)
          [] ptr = 40 -> HeapList(<<>>)
          [] ptr = 48 -> HeapList(<<Value_from_integer(0)>>)
          [] ptr = 56 -> HeapList(<<16, REPR_NULL>>)
          [] ptr = 64 -> HeapList(<<24, REPR_NULL>>)
          [] ptr = 72 -> HeapList(<<REPR_NULL, 16>>)]

\* the Values compared
ValueWords ==
    {REPR_NULL, REPR_FALSE, REPR_TRUE, Value_from_integer(0), Value_from_integer(1),
     Value_from_integer(0 - 1), Value_from_block(0, FALSE).repr} \cup DOMAIN ValueHeap

\* an equality that compares the lengths of two cells whatever their kinds
Value_eq_kindless(a, b) ==
    \/ a = b
    \/ Value_is_alloc(a) /\ Value_is_alloc(b) /\ Len(ValueHeap[a].v) = Len(ValueHeap[b].v)

\* PartialEq for Value: the same word; else both allocated, and then strings
\* by their bytes, lists element by element
RECURSIVE Value_eq(_, _)
Value_eq(a, b) ==
    IF a = b THEN TRUE
    ELSE IF ~Value_is_alloc(a) \/ ~Value_is_alloc(b) THEN FALSE
    ELSE IF ValueHeap[a].kind = "string"
    THEN ValueHeap[b].kind = "string" /\ ValueHeap[a].v = ValueHeap[b].v
    ELSE /\ ValueHeap[b].kind = "list"
         /\ Len(ValueHeap[a].v) = Len(ValueHeap[b].v)
         /\ \A i \in 1..Len(ValueHeap[a].v) : Value_eq(ValueHeap[a].v[i], ValueHeap[b].v[i])

\* lhs == rhs, rhs == lhs and lhs == lhs
ValueCompare ==
    /\ \E a, b \in ValueWords :
        cmp' = [lhs |-> a, rhs |-> b, eq |-> Value_eq(a, b), qe |-> Value_eq(b, a),
                self |-> Value_eq(a, a)]
    /\ UNCHANGED <<vmvars, gcvars, bvars, wvars, lvars, rvars, envvars>>

InitEq == VmIdle /\ GcNew /\ BuilderIdle /\ ValueIdle /\ EqIdle /\ ListIdle /\ RunIdle /\ EnvIdle

NextEq == ValueCompare

SpecEq == InitEq /\ [][NextEq]_vars

(***************************************************************************)
(* List (src/crate/src/value/list.rs, and the List of src/crate/src/       *)
(* list.rs where it differs: concat tests len(), iter() of a Cons is       *)
(* todo!(), and it has no get).  A List is None or one of the variants of  *)
(* Inner; the elements are integers.  An operation answers [ok, v], ok     *)
(* FALSE when a debug assertion or a todo!() panics.                       *)
(***************************************************************************)
MaxListOps == 2

ListElements == {0, 1}
ListSlices == {<<>>} \cup {<<x>> : x \in ListElements}
                \cup {<<x, y>> : x \in ListElements, y \in ListElements}
RepeatAmounts == 0..2
ListIndices == 0..2

Done(v) == [ok |-> TRUE, v |-> v]
Panic == [ok |-> FALSE, v |-> ListEmpty]

\* List::new, and From<Box<[Value]>> of list.rs
List_new(slice) ==
    CASE Len(slice) = 0 -> ListEmpty
      [] Len(slice) = 1 -> Inner_Boxed(slice[1])
      [] OTHER -> Inner_Slice(slice)

\* List::boxed, and From<Value> of list.rs
List_boxed(value) == Inner_Boxed(value)

RECURSIVE List_len(_)
List_len(l) ==
    CASE l[1] = "None" -> 0
      [] l[1] = "Boxed" -> 1
      [] l[1] = "Slice" -> Len(l[2])
      [] l[1] = "Cons" -> List_len(l[2]) + List_len(l[3])
      [] l[1] = "Repeat" -> List_len(l[2]) * l[3]

\* List::is_empty: whether the inner is None, after the debug assertion that
\* no variant has length 0
List_is_empty(l, debug) ==
    IF debug /\ (l = ListEmpty) # (List_len(l) = 0) THEN [ok |-> FALSE, v |-> FALSE]
    ELSE [ok |-> TRUE, v |-> l = ListEmpty]

\* List::concat; list.rs tests len() where value/list.rs tests is_empty()
List_concat(l, rhs, debug, which) ==
    IF which = "list.rs"
    THEN IF List_len(l) = 0 THEN Done(rhs)
         ELSE IF List_len(rhs) = 0 THEN Done(l)
         ELSE Done(Inner_Cons(l, rhs))
    ELSE IF ~List_is_empty(l, debug).ok THEN Panic
         ELSE IF List_is_empty(l, debug).v THEN Done(rhs)
         ELSE IF ~List_is_empty(rhs, debug).ok THEN Panic
         ELSE IF List_is_empty(rhs, debug).v THEN Done(l)
         ELSE Done(Inner_Cons(l, rhs))

\* List::repeat
List_repeat(l, amount) ==
    CASE amount = 0 -> ListEmpty
      [] amount = 1 -> l
      [] OTHER -> Inner_Repeat(l, amount)

\* the first n items of items.cycle()
CycleTake(items, n) == [i \in 1..n |-> items[((i - 1) % Len(items)) + 1]]

\* List::iter driven to its end: the values that next yields.  Iter::Cons
\* yields the left half and then the right; Iter::Repeat yields
\* list.len() * amount values of the cycle; in list.rs the Cons arm is todo!()
RECURSIVE List_iter(_, _)
List_iter(l, which) ==
    CASE l[1] = "None" -> Done(<<>>)
      [] l[1] = "Boxed" -> Done(<<l[2]>>)
      [] l[1] = "Slice" -> Done(l[2])
      [] l[1] = "Cons" ->
            IF which = "list.rs" THEN Panic
            ELSE LET a == List_iter(l[2], which)
                     b == List_iter(l[3], which)
                 IN IF a.ok /\ b.ok THEN Done(a.v \o b.v) ELSE Panic
      [] l[1] = "Repeat" ->
            LET a == List_iter(l[2], which)
            IN IF a.ok THEN Done(CycleTake(a.v, List_len(l[2]) * l[3])) ELSE Panic

\* PartialEq for List: the lengths, then the items pairwise
List_eq(l, rhs, which) ==
    IF List_len(l) # List_len(rhs) THEN [ok |-> TRUE, v |-> FALSE]
    ELSE LET a == List_iter(l, which)
             b == List_iter(rhs, which)
         IN IF a.ok /\ b.ok
            THEN [ok |-> TRUE, v |-> \A i \in 1..Len(a.v) : a.v[i] = b.v[i]]
            ELSE [ok |-> FALSE, v |-> FALSE]

\* iter.take(n) and iter.skip(n): the first n items, or all; those after
TakeItems(items, n) == IF n >= Len(items) THEN items ELSE SubSeq(items, 1, n)
SkipItems(items, n) == IF n >= Len(items) THEN <<>> ELSE SubSeq(items, n + 1, Len(items))

\* SliceFetch for Range<usize>: None, or the items start..end made a List
List_get(l, start, end, which) ==
    IF List_len(l) < end \/ end < start THEN [ok |-> TRUE, some |-> FALSE, v |-> ListEmpty]
    ELSE LET a == List_iter(l, which)
         IN [ok |-> a.ok, some |-> TRUE,
             v |-> List_new(TakeItems(SkipItems(a.v, start), end - start))]

\* Value::set on a List: take(start), the replacement, skip(start + len)
List_set(l, start, length, replacement, which) ==
    LET a == List_iter(l, which)
        r == List_iter(replacement, which)
    IN IF a.ok /\ r.ok
       THEN Done(List_new(TakeItems(a.v, start) \o r.v \o SkipItems(a.v, start + length)))
       ELSE Panic

\* List::tail: None of the empty list, else the items after the first
List_tail(l, which) ==
    IF List_len(l) = 0 THEN [ok |-> TRUE, some |-> FALSE, v |-> ListEmpty]
    ELSE List_get(l, 1, List_len(l), which)

ListFrame == UNCHANGED <<vmvars, gcvars, bvars, wvars, evars, rvars, envvars>>

ListOps == ~lres.panic /\ lops < MaxListOps

\* the operation op answered r, a List or a panic
ListResult(op, r) ==
    /\ la' = IF r.ok THEN r.v ELSE la
    /\ lres' = [op |-> op, panic |-> ~r.ok, eq |-> FALSE]
    /\ lops' = lops + 1
    /\ UNCHANGED <<lb, limpl, law>>
    /\ ListFrame

ListBoxed ==
    /\ ListOps
    /\ \E x \in ListElements : ListResult("boxed", Done(List_boxed(x)))

ListNew ==
    /\ ListOps
    /\ \E slice \in ListSlices : ListResult("new", Done(List_new(slice)))

ListConcat ==
    /\ ListOps
    /\ \E x \in {la, lb}, y \in {la, lb} :
        ListResult("concat", List_concat(x, y, debug_assertions, limpl))

ListRepeat ==
    /\ ListOps
    /\ \E amount \in RepeatAmounts : ListResult("repeat", Done(List_repeat(la, amount)))

\* GET: an index out of bounds leaves no list
ListGet ==
    /\ ListOps
    /\ limpl = "value/list.rs"
    /\ \E start \in ListIndices, length \in ListIndices :
        LET r == List_get(la, start, start + length, limpl)
        IN ListResult("get", IF r.ok /\ ~r.some THEN Done(la) ELSE [ok |-> r.ok, v |-> r.v])

ListSet ==
    /\ ListOps
    /\ limpl = "value/list.rs"
    /\ \E start \in ListIndices, length \in ListIndices :
        ListResult("set", List_set(la, start, length, lb, limpl))

ListTail ==
    /\ ListOps
    /\ limpl = "value/list.rs"
    /\ LET r == List_tail(la, limpl)
       IN ListResult("tail", IF r.ok /\ ~r.some THEN Done(la) ELSE [ok |-> r.ok, v |-> r.v])

\* the result kept as the other operand
ListKeep ==
    /\ ListOps
    /\ lb' = la
    /\ lops' = lops + 1
    /\ lres' = [op |-> "keep", panic |-> FALSE, eq |-> FALSE]
    /\ UNCHANGED <<la, limpl, law>>
    /\ ListFrame

\* la == lb
ListCompare ==
    /\ ListOps
    /\ LET r == List_eq(la, lb, limpl)
       IN lres' = [op |-> "eq", panic |-> ~r.ok, eq |-> r.v]
    /\ lops' = lops + 1
    /\ UNCHANGED <<la, lb, limpl, law>>
    /\ ListFrame

\* how many operations may have made the operands of a compound operation
MaxLawPrefix == 1

LawOps == ListOps /\ lops <= MaxLawPrefix

\* a compound operation made: the lists stay, and the run ends with it
LawMade(r) ==
    /\ law' = r
    /\ lres' = [op |-> "law", panic |-> FALSE, eq |-> FALSE]
    /\ lops' = MaxListOps
    /\ UNCHANGED <<la, lb, limpl>>
    /\ ListFrame

\* f(a, b) of two answers, a panic in either being the answer
Then2(a, b, f(_, _)) == IF ~a.ok THEN a ELSE IF ~b.ok THEN b ELSE f(a.v, b.v)

\* (x + y) + z and x + (y + z), and their comparison
ListAssociate ==
    /\ LawOps
    /\ \E x \in {la, lb}, y \in {la, lb}, z \in {la, lb} \cup {List_new(e) : e \in ListSlices} :
        LET cat(a, b) == List_concat(a, b, debug_assertions, limpl)
            xy == cat(x, y)
            yz == cat(y, z)
            left == Then2(xy, Done(z), cat)
            right == Then2(Done(x), yz, cat)
        IN LawMade([name |-> "concat", x |-> x, y |-> y, z |-> z, xy |-> xy, yz |-> yz,
                    left |-> left, right |-> right,
                    eq |-> IF left.ok /\ right.ok THEN List_eq(left.v, right.v, limpl)
                           ELSE [ok |-> FALSE, v |-> FALSE]])

\* s * 0, s * 1, (s * m) * n and s * (m * n), and their comparisons
ListRepeatTwice ==
    /\ LawOps
    /\ \E x \in {la, lb}, m \in RepeatAmounts, n \in RepeatAmounts :
        LET rm == List_repeat(x, m)
            rmn == List_repeat(rm, n)
            direct == List_repeat(x, m * n)
        IN LawMade([name |-> "repeat", x |-> x, m |-> m, n |-> n,
                    zero |-> List_repeat(x, 0), one |-> List_repeat(x, 1),
                    rm |-> rm, rmn |-> rmn, direct |-> direct,
                    same |-> List_eq(List_repeat(x, 1), x, limpl),
                    eq |-> List_eq(rmn, direct, limpl)])

\* the cap on the length of a string, i32::MAX in the source, small here
StringMaxLen == 3

StringsDrawn == {<<>>, <<"a">>, <<"b", "a">>}

\* StringSlice::new: the length checked under check_container_length
StringSlice_new(source, check) ==
    IF check /\ Len(source) > StringMaxLen THEN [ok |-> FALSE, v |-> <<>>]
    ELSE [ok |-> TRUE, v |-> source]

\* KString::concat
KString_concat(str, rhs, check) ==
    IF Len(str) = 0 THEN [ok |-> TRUE, v |-> rhs]
    ELSE IF Len(rhs) = 0 THEN [ok |-> TRUE, v |-> str]
    ELSE StringSlice_new(str \o rhs, check)

\* (x + y) + z and x + (y + z) of strings
StringAssociate ==
    /\ LawOps
    /\ \E x \in StringsDrawn, y \in StringsDrawn, z \in StringsDrawn, check \in BOOLEAN :
        LET cat(a, b) == KString_concat(a, b, check)
            xy == cat(x, y)
            yz == cat(y, z)
        IN LawMade([name |-> "sconcat", x |-> x, y |-> y, z |-> z, xy |-> xy, yz |-> yz,
                    left |-> Then2(xy, [ok |-> TRUE, v |-> z], cat),
                    right |-> Then2([ok |-> TRUE, v |-> x], yz, cat)])

\* two lists made by List::new, under either file
InitList ==
    /\ VmNew(Sources[1])
    /\ stacktrace
    /\ opts = OptionsDefault
    /\ GcNew
    /\ BuilderIdle
    /\ ValueIdle
    /\ EqIdle
    /\ RunIdle
    /\ EnvIdle
    /\ \E x \in ListSlices, y \in ListSlices : la = List_new(x) /\ lb = List_new(y)
    /\ limpl \in {"value/list.rs", "list.rs"}
    /\ lops = 0
    /\ lres = NoListOp
    /\ law = NoLaw

NextList ==
    \/ ListBoxed
    \/ ListNew
    \/ ListConcat
    \/ ListRepeat
    \/ ListGet
    \/ ListSet
    \/ ListTail
    \/ ListKeep
    \/ ListCompare
    \/ ListAssociate
    \/ StringAssociate
    \/ ListRepeatTwice

SpecList == InitList /\ [][NextList]_vars

(***************************************************************************)
(* GET and SET on containers drawn from a small set: Value::kn_get and     *)
(* Value::kn_set of the bytecode VM, GET and SET of the tree-walking       *)
(* interpreter (src/src/function.rs, src/src/value/value.rs) and the range *)
(* fetch of crate/src/value/list.rs; then HANDLE of the tree walker, the  *)
(* equality of both interpreters and Value::kn_dump.  One operation is     *)
(* applied to operands drawn; they and the answer are kept in law.         *)
(***************************************************************************)
\* starts are drawn from -MaxIndex..MaxIndex and lengths from -1..MaxIndex
MaxIndex == 4

IndexContainers == <<
    StrV(<<>>), StrV(<<"a", "b", "c">>),
    ListV(<<>>), ListV(<<IntV(1), IntV(2), IntV(3)>>) >>

\* replacements of the kind of the container, so that to_list and to_text
\* return their operand
IndexReplacements(x) ==
    IF x.t = "str" THEN <<StrV(<<>>), StrV(<<"x">>), StrV(<<"x", "x">>)>>
    ELSE <<ListV(<<>>), ListV(<<IntV(7)>>), ListV(<<IntV(7), IntV(7)>>)>>

\* lists of crate/src/value/list.rs in each of its representations
IndexLists == <<
    ListEmpty, List_boxed(0), List_new(<<0, 1>>),
    List_concat(List_new(<<0, 1>>), List_boxed(1), FALSE, "value/list.rs").v,
    List_repeat(List_new(<<0, 1>>), 2) >>

IndexOptions(negative) == [OptionsDefault EXCEPT !.negative_indexing = negative]

Abort(e) == [k |-> "panic", v |-> e]

\* GET of src/src/function.rs on a list of crate/src/value/list.rs
Tree_get(l, start, length, o) ==
    LET f == fix_len(ListV(List_iter(l, "value/list.rs").v), start, o)
    IN IF f.k # "ok" THEN f
       ELSE IF length < 0 THEN Err("DomainError: negative length")
       ELSE LET r == List_get(l, f.v, f.v + length, "value/list.rs")
            IN IF r.some THEN Ok(r.v) ELSE Err("IndexOutOfBounds")

\* text.get(range) of the tree walker: None outside the text
Text_get(text, from, to) ==
    IF from > to \/ to > Len(text) THEN None ELSE Some(SubSeq(text, from + 1, to))

\* a SET that keeps what follows the first `length` items, not start + length
Tree_set_from_length(x, start, length, replacement, o) ==
    IF start < 0 \/ length < 0 THEN Err("DomainError")
    ELSE Ok([t |-> x.t, v |-> TakeItems(x.v, start) \o replacement.v \o SkipItems(x.v, length)])

\* SET of src/src/function.rs, Value::set of src/src/value/value.rs
Tree_set(x, start, length, replacement, o) ==
    LET f == fix_len(x, start, o)
    IN IF f.k # "ok" THEN f
       ELSE IF length < 0 THEN Err("DomainError: negative length")
       ELSE IF x.t = "list"
       THEN Ok(ListV(TakeItems(x.v, f.v) \o replacement.v \o SkipItems(x.v, f.v + length)))
       ELSE IF x.t = "str"
       THEN LET head == Text_get(x.v, 0, f.v)
                rest == Text_get(x.v, f.v + length, Len(x.v))
            IN IF ~head.some \/ ~rest.some
               THEN Abort("unwrap on None")
               ELSE Ok(StrV(head.v \o replacement.v \o rest.v))
       ELSE TypeError(x, "SET")

IndexFrame == UNCHANGED <<vmvars, gcvars, bvars, wvars, evars, rvars, envvars, la, lb, limpl, lops, lres>>

IndexStarts == (0 - MaxIndex)..MaxIndex
IndexLengths == (0 - 1)..MaxIndex

BytecodeGet ==
    /\ law = NoLaw
    /\ \E i \in DOMAIN IndexContainers, b \in IndexStarts, c \in IndexLengths, n \in BOOLEAN :
        law' = [name |-> "GET", impl |-> "bytecode", x |-> IndexContainers[i], b |-> b, c |-> c,
                negative |-> n,
                r |-> kn_get(IndexContainers[i], IntV(b), IntV(c), IndexOptions(n))]
    /\ IndexFrame

TreeGet ==
    /\ law = NoLaw
    /\ \E i \in DOMAIN IndexLists, b \in IndexStarts, c \in IndexLengths, n \in BOOLEAN :
        law' = [name |-> "GET", impl |-> "tree", x |-> IndexLists[i], b |-> b, c |-> c,
                negative |-> n,
                r |-> Tree_get(IndexLists[i], b, c, IndexOptions(n))]
    /\ IndexFrame

BytecodeSet ==
    /\ law = NoLaw
    /\ \E i \in DOMAIN IndexContainers, b \in IndexStarts, c \in IndexLengths, j \in 1..3 :
        LET x == IndexContainers[i]
            d == IndexReplacements(x)[j]
        IN law' = [name |-> "SET", impl |-> "bytecode", x |-> x, b |-> b, c |-> c, d |-> d,
                   r |-> kn_set(x, IntV(b), IntV(c), d, OptionsDefault), after |-> x]
    /\ IndexFrame

TreeSet ==
    /\ law = NoLaw
    /\ \E i \in DOMAIN IndexContainers, b \in IndexStarts, c \in IndexLengths, j \in 1..3 :
        LET x == IndexContainers[i]
            d == IndexReplacements(x)[j]
        IN law' = [name |-> "SET", impl |-> "tree", x |-> x, b |-> b, c |-> c, d |-> d,
                   r |-> Tree_set(x, b, c, d, OptionsDefault), after |-> x]
    /\ IndexFrame

\* the expressions HANDLE is given: a literal, QUIT of a status, YEET of a
\* message
HandleExprs == <<
    [f |-> "lit", v |-> 5], [f |-> "QUIT", v |-> 3], [f |-> "QUIT", v |-> 200],
    [f |-> "YEET", v |-> 1] >>

\* QUIT: Error::Quit of the status, or a DomainError when strict-compliance
\* bounds it to 0..=127
Tree_QUIT(code, strict_compliance) ==
    IF ~strict_compliance \/ code \in 0..127 THEN Err(<<"Quit", code>>)
    ELSE Err(<<"DomainError", 0>>)

Tree_YEET(errmsg) == Err(<<"Custom", errmsg>>)

\* an expression run
Tree_eval(e, strict_compliance) ==
    CASE e.f = "lit" -> Ok(<<"Integer", e.v>>)
      [] e.f = "QUIT" -> Tree_QUIT(e.v, strict_compliance)
      [] e.f = "YEET" -> Tree_YEET(e.v)

\* err.to_string() made a Text
ErrorText(err) == <<"text", err>>

\* HANDLE: the block's value, or on any Err the message assigned to _ and
\* the alternative run
Tree_HANDLE(block, iferr, strict_compliance) ==
    LET b == Tree_eval(block, strict_compliance)
    IN IF b.k = "ok"
       THEN [r |-> b, assigned |-> FALSE, underscore |-> <<>>, alt |-> FALSE]
       ELSE [r |-> Tree_eval(iferr, strict_compliance), assigned |-> TRUE,
             underscore |-> ErrorText(b.v), alt |-> TRUE]

TreeHandle ==
    /\ law = NoLaw
    /\ \E i \in DOMAIN HandleExprs, j \in DOMAIN HandleExprs, strict \in BOOLEAN :
        law' = [name |-> "HANDLE", block |-> HandleExprs[i], iferr |-> HandleExprs[j],
                strict |-> strict,
                b |-> Tree_eval(HandleExprs[i], strict),
                e |-> Tree_eval(HandleExprs[j], strict),
                h |-> Tree_HANDLE(HandleExprs[i], HandleExprs[j], strict)]
    /\ IndexFrame

\* the operands of ?: an integer, a block, and lists that hold a block at
\* depth 1 and 3; the tree walker's blocks are Ast and Variable values
EqualsOperands(impl) ==
    LET blk == IF impl = "tree" THEN [t |-> "ast", v |-> <<"B", IntV(1)>>] ELSE BlockV(0)
        var == IF impl = "tree" THEN [t |-> "variable", v |-> "a"] ELSE BlockV(1)
    IN << IntV(1), blk, ListV(<<IntV(1)>>), ListV(<<IntV(1), var>>),
          ListV(<<ListV(<<ListV(<<blk>>)>>)>>) >>

\* a check that looks at the operand and not into it
check_for_strict_compliance_shallow(value) ==
    IF value.t \in {"ast", "variable"} THEN TypeError(value, "?") ELSE Ok(TRUE)

\* check_for_strict_compliance of Value::equals: an Ast or a Variable, or a
\* list that holds one
RECURSIVE check_for_strict_compliance(_)
check_for_strict_compliance(value) ==
    CASE value.t = "list" ->
            IF \A i \in 1..Len(value.v) : check_for_strict_compliance(value.v[i]).k = "ok"
            THEN Ok(TRUE) ELSE TypeError(value, "?")
      [] value.t \in {"ast", "variable"} -> TypeError(value, "?")
      [] OTHER -> Ok(TRUE)

\* Value::equals of the tree walker
Tree_equals(x, rhs, check_equals_params) ==
    IF check_equals_params /\ check_for_strict_compliance(x).k # "ok"
    THEN check_for_strict_compliance(x)
    ELSE IF check_equals_params /\ check_for_strict_compliance(rhs).k # "ok"
    THEN check_for_strict_compliance(rhs)
    ELSE Ok(ValueEq(x, rhs))

Equals ==
    /\ law = NoLaw
    /\ \E impl \in {"bytecode", "tree"}, i \in 1..5, j \in 1..5, flag \in BOOLEAN :
        LET x == EqualsOperands(impl)[i]
            y == EqualsOperands(impl)[j]
        IN law' = [name |-> "?", impl |-> impl, x |-> x, y |-> y, flag |-> flag,
                   r |-> IF impl = "tree" THEN Tree_equals(x, y, flag)
                         ELSE kn_equals(x, y, [OptionsDefault EXCEPT !.strict_blocks = flag])]
    /\ IndexFrame

\* the operands of DUMP
DumpOperands == << IntV(1), BlockV(0), ListV(<<IntV(1)>>), ListV(<<BlockV(0)>>) >>

\* kn_dump applied: its answer, and what env.output() received
Dump ==
    /\ law = NoLaw
    /\ \E i \in DOMAIN DumpOperands, flag \in BOOLEAN :
        LET r == kn_dump(DumpOperands[i], [OptionsDefault EXCEPT !.strict_blocks = flag])
        IN law' = [name |-> "DUMP", x |-> DumpOperands[i], flag |-> flag, r |-> r,
                   written |-> IF r.k = "ok" THEN r.v ELSE <<>>]
    /\ IndexFrame

InitIndex == VmIdle /\ GcNew /\ RestIdle

NextIndex ==
    \/ BytecodeGet
    \/ TreeGet
    \/ BytecodeSet
    \/ TreeSet
    \/ TreeHandle
    \/ Equals
    \/ Dump

SpecIndex == InitIndex /\ [][NextIndex]_vars

(***************************************************************************)
(* Vm::run with the stacktrace feature (vm.rs 122-157), one step for its   *)
(* entry and one for what follows run_inner.  run_inner is whatever the    *)
(* block does: it moves current_index, leaves values on the stack, calls   *)
(* run again for a Call, and returns a value or an error.                  *)
(***************************************************************************)
MaxRunDepth == 3
MaxRunIndex == 1
\* the calls of run in one behaviour
MaxRunCalls == 3

RunFrame == UNCHANGED <<vmvars, gcvars, bvars, wvars, evars, lvars, envvars>>

Running == nested.ret.k = "none"
Innermost == nested.frames[Len(nested.frames)]

\* run(block) up to run_inner: the index saved, pushed on the callstack, the
\* stack length noted, current_index set to the block
RunEnter ==
    /\ Running /\ Len(nested.frames) < MaxRunDepth
    /\ Len(nested.frames) + Len(nested.left) < MaxRunCalls
    /\ \E block \in 0..MaxRunIndex :
        nested' = [nested EXCEPT
            !.frames = Append(@, [index |-> nested.current_index, stack_len |-> nested.stack]),
            !.callstack = Append(@, nested.current_index),
            !.current_index = block]
    /\ RunFrame

\* run_inner at work: opcodes move the index and leave a value on the stack
RunInnerStep ==
    /\ Running /\ Len(nested.frames) > 0
    /\ \E index \in 0..MaxRunIndex, more \in 0..1 :
        nested' = [nested EXCEPT !.current_index = index,
                                 !.stack = Innermost.stack_len + more]
    /\ RunFrame

\* run_inner returns: Ok of a value, or an error of an opcode
RunInnerReturns ==
    /\ Running /\ Len(nested.frames) > 0
    /\ \E k \in {"ok", "err"} :
        nested' = [nested EXCEPT !.ret = [NoRet EXCEPT !.k = k, !.at = Len(nested.frames)]]
    /\ RunFrame

\* the result after `match result`: an error that is no Stacktrace is made one
Wrapped(ret, depth, calls) ==
    IF ret.k = "err" /\ ret.wraps = 0
    THEN [ret EXCEPT !.wraps = 1, !.by = depth, !.snapshot = calls]
    ELSE ret

\* run(block) after run_inner: the error wrapped, the callstack popped and
\* compared, the stack length compared, the index restored, the result given
\* to the caller: the Call arm pushes a value and goes on, an error leaves the
\* caller's run_inner at once
RunLeave ==
    /\ nested.ret.k \in {"ok", "err"} /\ Len(nested.frames) > 0
    /\ LET depth == Len(nested.frames)
           f == Innermost
           res == Wrapped(nested.ret, depth, nested.callstack)
           popped == nested.callstack[Len(nested.callstack)]
           shorter == SubSeq(nested.callstack, 1, Len(nested.callstack) - 1)
           fails == debug_assertions /\ (popped # f.index \/ f.stack_len # nested.stack)
       IN nested' =
            IF fails
            THEN [nested EXCEPT
                    !.callstack = shorter,
                    !.ret = [res EXCEPT !.k = "panic"],
                    !.left = Append(@, [depth |-> depth, index |-> f.index, popped |-> popped,
                                        restored |-> FALSE, k |-> "panic"])]
            ELSE [nested EXCEPT
                    !.callstack = shorter,
                    !.frames = SubSeq(@, 1, depth - 1),
                    !.current_index = f.index,
                    !.stack = IF res.k = "ok" /\ depth > 1 THEN @ + 1 ELSE @,
                    !.ret = IF res.k = "ok" /\ depth > 1 THEN NoRet ELSE res,
                    !.left = Append(@, [depth |-> depth, index |-> f.index, popped |-> popped,
                                        restored |-> TRUE, k |-> res.k])]
    /\ RunFrame

InitRun ==
    /\ VmNew(Sources[1])
    /\ stacktrace
    /\ opts = OptionsDefault
    /\ GcNew
    /\ RestIdle

NextRun ==
    \/ RunEnter
    \/ RunInnerStep
    \/ RunInnerReturns
    \/ RunLeave

SpecRun == InitRun /\ [][NextRun]_vars

(***************************************************************************)
(* The tree-walking interpreter's AND, OR and BLOCK (src/src/function.rs), *)
(* on operands that are a literal or BLOCK of a literal or a variable.     *)
(***************************************************************************)
TreeVariable(n) == [t |-> "variable", v |-> n]
TreeAst(f, arg) == [t |-> "ast", v |-> <<f, arg>>]

\* the value an argument token parses to
TreeArg(tok) == IF tok.k = "lit" THEN tok.v ELSE TreeVariable(tok.n)

\* BLOCK: its argument unevaluated, wrapped when strict-call-argument is on
Tree_BLOCK(arg, strict_call_argument) ==
    IF strict_call_argument /\ arg.t # "ast" THEN TreeAst(":", arg) ELSE arg

IsOperand(toks) ==
    \/ Len(toks) = 1 /\ toks[1].k = "lit"
    \/ Len(toks) = 2 /\ toks[1] = Fn("B") /\ toks[2].k \in {"lit", "var"}

\* Value::run of an operand
Tree_run(toks, strict_call_argument) ==
    IF Len(toks) = 1 THEN Ok(toks[1].v) ELSE Ok(Tree_BLOCK(TreeArg(toks[2]), strict_call_argument))

\* the truthiness of null, booleans, integers, texts and lists
Tree_truthy(x) ==
    CASE x.t = "null" -> FALSE
      [] x.t = "bool" -> x.v
      [] x.t = "int" -> x.v # 0
      [] x.t \in {"str", "list"} -> Len(x.v) > 0

Tree_to_boolean(x) ==
    IF x.t \in {"null", "bool", "int", "str", "list"} THEN Ok(Tree_truthy(x)) ELSE Err("NoConversion")

Tree_AND(lhs, rhs, strict_call_argument) ==
    LET condition == Tree_run(lhs, strict_call_argument).v
        c == Tree_to_boolean(condition)
    IN IF c.k # "ok" THEN c ELSE IF c.v THEN Tree_run(rhs, strict_call_argument) ELSE Ok(condition)

Tree_OR(lhs, rhs, strict_call_argument) ==
    LET condition == Tree_run(lhs, strict_call_argument).v
        c == Tree_to_boolean(condition)
    IN IF c.k # "ok" THEN c ELSE IF ~c.v THEN Tree_run(rhs, strict_call_argument) ELSE Ok(condition)

(***************************************************************************)
(* Properties of the virtual machine.                                      *)
(***************************************************************************)
\* the expressions whose instruction sequence has just run to its end
Closing == IF status = "running"
           THEN {i \in 1..Len(open) : IsClosing(i, open, current_index, Depth, Len(trace))}
           ELSE {}

\* the stack is the stack at entry with one value pushed
PushedOne(m) == Len(stack) = Len(m.base) + 1 /\ SubSeq(stack, 1, Len(m.base)) = m.base

Uses(c) == \E i \in 1..Len(prog.toks) : prog.toks[i] = Fn(c)

\* the steps taken since the expression was entered
Since(m) == (m.t0 + 1)..Len(trace)

LastStep == trace[Len(trace)]
Stepped(op) == Len(trace) > 0 /\ LastStep.op = op
\* the stack before the last step
StackBefore == IF Len(trace) > 1 THEN trace[Len(trace) - 1].st ELSE <<>>

SpanAtToken(t) == CHOOSE sp \in {prog.spans[i] : i \in 1..Len(prog.spans)} : sp.ts = t
TokensOf(sp) == SubSeq(prog.toks, sp.ts, sp.te - 1)

SlotOf(name) == CHOOSE i \in 1..Len(prog.program.variable_names) : prog.program.variable_names[i] = name

\* the value of a literal, of a variable read, of an assignment
ValueOnTop(m) ==
    CASE m.f = "lit" -> Top(stack) = prog.toks[m.ts].v
      [] m.f = "var" -> Top(stack) = variables[SlotOf(prog.toks[m.ts].n)]
      [] m.f = "=" -> Top(stack) = variables[SlotOf(prog.toks[m.ts + 1].n)]
      [] OTHER -> TRUE

StackDiscipline == \A i \in Closing : PushedOne(open[i]) /\ ValueOnTop(open[i])

\* C1: in a program built from literals, variable reads, =, ;, &, |, IF,
\* BLOCK, CALL (run through Vm::run, the stacktrace form) and the simple
\* operators, every expression whose instructions ran to their end without
\* error left the stack one value longer than at its start, its value on
\* top and the values beneath unchanged.
C1_StackDiscipline ==
    (~Uses("W") /\ (Uses("C") => stacktrace)) => StackDiscipline

\* C1 with DUMP left out of the operators: the discipline holds for the rest
C1_ExceptDump ==
    (~Uses("W") /\ ~Uses("D") /\ (Uses("C") => stacktrace)) => StackDiscipline

\* the iterations of a loop since it was entered: the executions of its
\* backward Jump
Iterations(m) == Cardinality({k \in Since(m) : trace[k].pc = m.e - 1 /\ trace[k].d = m.d})

\* C2: when the code of `W c b` has run to its end the stack is exactly
\* one value longer than before the loop, whatever the number of iterations.
C2_WhileLeavesOne == \A i \in Closing : open[i].f = "W" => PushedOne(open[i])

\* what the loop leaves instead: one body value for each iteration
C2_WhileAccumulates ==
    (~Uses("D") /\ ~Uses("C")) =>
        \A i \in Closing : open[i].f = "W" =>
            /\ Len(stack) = Len(open[i].base) + Iterations(open[i])
            /\ SubSeq(stack, 1, Len(open[i].base)) = open[i].base

\* the Call that entered the activation the last step returned from
CallOf(d) == LET ks == {k \in 1..Len(trace) : trace[k].op = "Call" /\ trace[k].d = d - 1}
             IN trace[CHOOSE k \in ks : \A j \in ks : j <= k]

\* `B e` ran none of e's instructions and pushed Block(first instruction of e)
BlockPushed(m) ==
    /\ PushedOne(m)
    /\ Top(stack) = BlockV(m.s + 1)
    /\ \A k \in Since(m) : trace[k].pc \in {m.s, m.e - 1}

\* the last step was a Return to a caller: execution continues after the
\* Call, with the block's result pushed on the stack the Call left
ReturnedToCaller ==
    LET call == CallOf(LastStep.d)
    IN /\ status = "running"
       /\ current_index = call.pc + 1
       /\ stack = Append(call.st, Top(StackBefore))

IsTypeError(r) == r = Err("TypeError") \/ r = Err(<<"Stacktrace", "TypeError">>)

\* C3: the code of `B e` executes no instruction of e and pushes the block
\* whose index is e's first instruction; CALL of a block continues at that
\* instruction, and when the Return of e executes, e's result is pushed and
\* execution continues after the Call; CALL of any other value is a
\* TypeError.
C3_BlockAndCall ==
    /\ \A i \in Closing : open[i].f = "B" => BlockPushed(open[i])
    /\ (Stepped("Call") /\ as_block(Top(StackBefore))) =>
           (status = "running" /\ current_index = Top(StackBefore).v)
    /\ (Stepped("Call") /\ ~as_block(Top(StackBefore))) =>
           (status = "error" /\ IsTypeError(result))
    /\ (Stepped("Return") /\ LastStep.d > 1) => ReturnedToCaller

\* C3 in the stacktrace form, where a debug build may stop at the stack
\* length assertion of Vm::run while the TypeError is returned
C3_StacktraceForm ==
    stacktrace =>
        /\ \A i \in Closing : open[i].f = "B" => BlockPushed(open[i])
        /\ (Stepped("Call") /\ as_block(Top(StackBefore))) =>
               (status = "running" /\ current_index = Top(StackBefore).v)
        /\ (Stepped("Call") /\ ~as_block(Top(StackBefore))) =>
               \/ status = "error" /\ IsTypeError(result)
               \/ debug_assertions /\ status = "panic" /\ result.v[2] = "TypeError"
        /\ (Stepped("Return") /\ LastStep.d > 1 /\ ~Uses("W") /\ ~Uses("D")) => ReturnedToCaller

\* C4: without stacktrace, a Return with a pending caller resumes after the
\* Call with the block's result on top of the stack the Call left; a
\* Return with no caller ends the run with the value that was on top of the
\* stack when the Return started.
C4_MinimalReturn ==
    (~stacktrace /\ Stepped("Return")) =>
        IF LastStep.d > 1 THEN ReturnedToCaller
        ELSE status = "done" /\ result = Ok(Top(StackBefore))

\* the span of the expression that starts at a token
ArgA(m) == SpanAtToken(m.ts + 1)
ArgB(m) == SpanAtToken(ArgA(m).te)

\* the value the first operand left: the top of the stack after the step
\* that reached the end of its code
FirstValue(m) ==
    LET ks == {k \in Since(m) : trace[k].to = ArgA(m).e /\ trace[k].d = m.d}
    IN Top(trace[CHOOSE k \in ks : \A j \in ks : k <= j].st)

Executed(m, sp) == {k \in Since(m) : trace[k].pc >= sp.s /\ trace[k].pc < sp.e /\ trace[k].d = m.d}

ShortCircuits(m) == LET c == ToBoolean(FirstValue(m), opts).v IN IF m.f = "&" THEN ~c ELSE c

\* a evaluated once; a's value kept and b not run, or a's value discarded
\* and b run on the stack as it was before a; one value left
Logical(m) ==
    /\ PushedOne(m)
    /\ Cardinality({k \in Since(m) : trace[k].pc = m.s /\ trace[k].d = m.d}) = 1
    /\ IF ShortCircuits(m)
       THEN Top(stack) = FirstValue(m) /\ Executed(m, ArgB(m)) = {}
       ELSE \E k \in Executed(m, ArgB(m)) :
               trace[k].pc = ArgB(m).s /\ trace[k - 1].st = m.base /\ trace[k - 1].op = "Pop"

Tree_result(m, strict_call_argument) ==
    IF m.f = "&" THEN Tree_AND(TokensOf(ArgA(m)), TokensOf(ArgB(m)), strict_call_argument)
    ELSE Tree_OR(TokensOf(ArgA(m)), TokensOf(ArgB(m)), strict_call_argument)

SameAsTree(m) == \A strict_call_argument \in BOOLEAN : Tree_result(m, strict_call_argument) = Ok(Top(stack))

IsLogical(m) == m.f \in {"&", "|"} /\ IsOperand(TokensOf(ArgA(m))) /\ IsOperand(TokensOf(ArgB(m)))

\* C5 as stated: & and | evaluate a once, short-circuit, leave one value,
\* and the value equals the tree-walking AND/OR of the same operands.
C5_LogicalAsTree ==
    \A i \in Closing : IsLogical(open[i]) => (Logical(open[i]) /\ SameAsTree(open[i]))

\* C5: & and | evaluate a once, short-circuit, leave one value; the value
\* equals the tree-walking AND/OR of the same operands when neither a's
\* value nor the result is a block.
C5_LogicalAsTreeWithoutBlocks ==
    \A i \in Closing : IsLogical(open[i]) =>
        /\ Logical(open[i])
        /\ (~as_block(FirstValue(open[i])) /\ ~as_block(Top(stack))) => SameAsTree(open[i])

\* `& 0 b` has run to its end: the falsy first operand is the result
C5_Witness ==
    \E i \in Closing : /\ open[i].f = "&" /\ IsOperand(TokensOf(ArgA(open[i])))
                       /\ FirstValue(open[i]) = IntV(0) /\ Top(stack) = IntV(0)
                       /\ Len(open[i].base) = 1

\* C6: when the code of `DUMP x` has run to its end the stack is one
\* longer than at its start with x's value on top, and what was written is
\* the dump form of x's value.
C6_DumpYieldsArgument ==
    \A i \in Closing : open[i].f = "D" =>
        /\ PushedOne(open[i])
        /\ Top(stack) = Top(StackBefore)
        /\ output = Append(open[i].out, DumpForm(Top(StackBefore)))


\* the cells reachable from the values xs in the heap h
RECURSIVE ReachCells(_, _, _)
ReachCells(h, xs, seen) ==
    IF Len(xs) = 0 THEN seen
    ELSE LET x == xs[1]
             here == IF is_alloc(x) /\ x.v \notin seen
                     THEN IF h[x.v].allocated /\ h[x.v].kind = "list"
                          THEN ReachCells(h, h[x.v].data, seen \cup {x.v})
                          ELSE seen \cup {x.v}
                     ELSE seen
         IN ReachCells(h, Tail(xs), here)

Kept(c) == /\ last.post[c].allocated
           /\ last.post[c].kind = last.pre[c].kind
           /\ last.post[c].data = last.pre[c].data

InFlightOperands == inflight.args \o last.handles
CollectedInFlight == inflight.phase \in {"begun", "allocated"} /\ inflight.collected

\* C8: a collection that an operator's own allocation starts reclaims
\* neither a popped operand nor a coerced intermediate of that operator, and
\* the result stands in the vacated slot, the length of the stack restored,
\* before the next opcode runs.
C8_OperatorRooting ==
    /\ CollectedInFlight =>
          \A k \in DOMAIN InFlightOperands :
              LET x == InFlightOperands[k]
              IN (is_alloc(x) /\ last.pre[x.v].allocated) => Kept(x.v)
    /\ inflight.phase = "finished" =>
          /\ Len(gc_stack) = inflight.base + 1
          /\ gc_stack[inflight.base + 1] = inflight.result

\* C8, the part that holds: the coerced intermediates are kept, and the
\* result is rooted before the next opcode.
C8_CoercedAndResult ==
    /\ CollectedInFlight =>
          \A k \in DOMAIN last.handles :
              LET x == last.handles[k] IN last.pre[x.v].allocated => Kept(x.v)
    /\ inflight.phase = "finished" =>
          /\ Len(gc_stack) = inflight.base + 1
          /\ gc_stack[inflight.base + 1] = inflight.result

\* C9: a sweep frees exactly the cells that are unmarked and not static;
\* a static cell and a marked cell stay allocated; every cell that is
\* allocated after the sweep has its mark clear.
C9_SweepExact ==
    last.n > 0 =>
        \A c \in Cells :
            /\ last.pre[c].allocated =>
                  (last.post[c].allocated <=> (c \in last.marked \/ last.pre[c].static))
            /\ last.post[c].allocated => ~last.post[c].marked

\* C9, for the cells without the static flag.
C9_SweepNonStatic ==
    last.n > 0 =>
        \A c \in Cells :
            /\ (last.pre[c].allocated /\ ~last.pre[c].static) =>
                  (last.post[c].allocated <=> c \in last.marked)
            /\ last.post[c].allocated => ~last.post[c].marked


\* the slot a GetVar or SetVar step addressed
OffsetOf(k) == prog.program.code[trace[k].pc + 1].off
\* the steps before the last one that stored into the slot it addressed
StoresBefore == {j \in 1..(Len(trace) - 1) : trace[j].op = "SetVar" /\ OffsetOf(j) = OffsetOf(Len(trace))}
\* the name the source reads where the last step's instruction was emitted
NameRead == LET sp == CHOOSE x \in {prog.spans[i] : i \in 1..Len(prog.spans)} :
                          x.s = LastStep.pc /\ x.f = "var"
            IN prog.toks[sp.ts].n
\* the error left run_inner; Vm::run wraps it (stacktrace) or stops at its
\* stack length assertion (debug build, values beneath)
Raised(e) == \/ status = "error" /\ result \in {Err(e), Err(<<"Stacktrace", e>>)}
             \/ status = "panic" /\ result = Err(<<"debug_assert_eq!(stack_len, self.stack.len())", e>>)

\* C11: a GetVar of a slot that no SetVar has written fails with
\* UndefinedVariable of the variable's name and pushes nothing; otherwise it
\* pushes the value that the latest SetVar of the slot stored.
C11_GetVar ==
    Stepped("GetVar") =>
        IF StoresBefore = {}
        THEN Raised(<<"UndefinedVariable", NameRead>>) /\ stack = StackBefore
        ELSE LET j == CHOOSE m \in StoresBefore : \A n \in StoresBefore : n <= m
             IN status = "running" /\ stack = Append(StackBefore, Top(trace[j].st))

\* a read after two stores of different values into the slot
C11_Witness ==
    /\ Stepped("GetVar") /\ status = "running"
    /\ \E j, m \in StoresBefore : j < m /\ Top(trace[j].st) # Top(trace[m].st)
                                  /\ Top(stack) = Top(trace[m].st)

\* C10: SetVar i stores the top of the stack in slot i; the other slots and
\* the stack are as before, and the run goes on at the next instruction.
C10_SetVarFrame ==
    [][(Fetched /\ Enough /\ Opcode = "SetVar" /\ Len(stack) > 0) =>
          /\ variables' = [variables EXCEPT ![Offset + 1] = Top(stack)]
          /\ stack' = stack
          /\ current_index' = current_index + 1
          /\ status' = status /\ output' = output
          /\ frames' = frames /\ callstack' = callstack /\ jumpstack' = jumpstack]_vars

\* SetVar has written one of two set slots, with a value beneath the top
C10_Witness ==
    /\ Stepped("SetVar") /\ status = "running"
    /\ Len(stack) = 2 /\ Len(variables) = 2
    /\ variables[1] = Top(stack) /\ variables[2] # NoneV /\ stack[1] # stack[2]

(***************************************************************************)
(* The Builder's claims, under SpecBuilder.                                *)
(***************************************************************************)
JumpOpcodes == {"Jump", "JumpIfTrue", "JumpIfFalse"}

\* the indices of the code words spelled out
CodeIndices(b) == {b.base + k - 1 : k \in 1..Len(b.code)}

\* C12: every placeholder of defer_jump is overwritten at most once, and
\* then by a jump whose immediate is the absolute index of its target; a
\* placeholder still in the code belongs to a DeferredJump not yet consumed;
\* once build has completed every placeholder was overwritten exactly once,
\* no word of the Program is a placeholder, and every jump's immediate is an
\* index inside the Program's code.
C12_JumpsPatched ==
    /\ \A i, j \in 1..Len(bhist.patches) : bhist.patches[i].at = bhist.patches[j].at => i = j
    /\ \A i \in 1..Len(bhist.patches) :
        LET p == bhist.patches[i]
        IN WordAt(builder, p.at).op \in JumpOpcodes /\ WordAt(builder, p.at).off = p.to
    /\ \A x \in CodeIndices(builder) :
        WordAt(builder, x) = Placeholder <=> \E d \in pending : d.at = x
    /\ built.done =>
        \A k \in 1..Len(built.program.code) :
            LET w == built.program.code[k]
            IN /\ w # Placeholder
               /\ w.op \in JumpOpcodes =>
                    /\ w.off - builder.base \in 0..(Len(built.program.code) - 1)
                    /\ \E i \in 1..Len(bhist.patches) :
                          bhist.patches[i].at = builder.base + k - 1

\* a jump deferred, patched after more code was written, and built
C12_Witness ==
    /\ built.done
    /\ \E i \in 1..Len(bhist.patches) :
        /\ bhist.patches[i].to > bhist.patches[i].at + 1
        /\ bhist.patches[i].to - builder.base = Len(built.program.code) - 1

\* C13: after any sequence of push_constant calls no two slots of the pool
\* hold equal values, and the PushConstant word each call emitted carries the
\* index of a slot whose value equals the constant pushed.
C13_ConstantPool ==
    /\ \A i, j \in 1..Len(builder.constants) :
        ValueEq(builder.constants[i], builder.constants[j]) => i = j
    /\ \A i \in 1..Len(bhist.consts) :
        LET w == WordAt(builder, bhist.consts[i].at)
        IN /\ w.op = "PushConstant"
           /\ w.off < Len(builder.constants)
           /\ ValueEq(builder.constants[w.off + 1], bhist.consts[i].value)

\* a constant pushed, another pushed, and the first pushed again
C13_Witness ==
    /\ Len(bhist.consts) = 3
    /\ ValueEq(bhist.consts[1].value, bhist.consts[3].value)
    /\ ~ValueEq(bhist.consts[1].value, bhist.consts[2].value)
    /\ Len(builder.constants) = 2

\* the index the i-th successful get_variable or set_variable call emitted
IndexGiven(i) == WordAt(builder, bhist.names[i].at).off

\* C14: after any sequence of get_variable and set_variable calls the N
\* distinct names seen hold exactly the indices 0..N-1 (those spelled out
\* follow the base names), the same name always received the same index and
\* different names different ones, the Program's variable count is N, and
\* every GetVar and SetVar immediate is less than N.
C14_VariableIndices ==
    LET calls == 1..Len(bhist.names)
        N == builder.base + Cardinality({bhist.names[i].name : i \in calls})
    IN /\ \A i \in calls : WordAt(builder, bhist.names[i].at).op \in {"GetVar", "SetVar"}
       /\ {IndexGiven(i) : i \in calls} = builder.base..(N - 1)
       /\ \A i, j \in calls : bhist.names[i].name = bhist.names[j].name <=> IndexGiven(i) = IndexGiven(j)
       /\ variables_len(builder) = N
       /\ built.done => built.program.num_variables = N
       /\ \A x \in CodeIndices(builder) :
            WordAt(builder, x).op \in {"GetVar", "SetVar"} => WordAt(builder, x).off < N

\* two names, the first of them used again, and the Program built
C14_Witness ==
    /\ built.done
    /\ built.program.num_variables = 2
    /\ Len(bhist.names) = 3
    /\ bhist.names[1].name = bhist.names[3].name
    /\ bhist.names[1].name # bhist.names[2].name

\* the successful calls that introduced a name
Introductions == {i \in 1..Len(bhist.names) :
                    \A j \in 1..(i - 1) : bhist.names[j].name # bhist.names[i].name}

\* C15: with variable_count on, a new name is introduced only while fewer
\* than MAX_VARIABLE_COUNT names exist, a call refused with TooManyVariables
\* found MAX_VARIABLE_COUNT names or more, and so the table never holds more
\* than MAX_VARIABLE_COUNT names.
C15_VariableCap ==
    bopts.variable_count =>
        /\ \A i \in Introductions : bhist.names[i].len < MAX_VARIABLE_COUNT
        /\ \A i \in 1..Len(bhist.refused) : bhist.refused[i].len >= MAX_VARIABLE_COUNT
        /\ variables_len(builder) <= MAX_VARIABLE_COUNT

(***************************************************************************)
(* The claims about the words of a Value, under SpecValue.                 *)
(***************************************************************************)
\* the kinds a word is classified as
KindsOf(is) ==
    {k \in {"null", "boolean", "integer", "block", "alloc"} :
        CASE k = "null" -> is.null
          [] k = "boolean" -> is.boolean.some
          [] k = "integer" -> is.integer.some
          [] k = "block" -> is.block.some
          [] k = "alloc" -> is.alloc}

\* C16: the word a constructor produced (of null, a boolean, an integer, a
\* block, a heap pointer) is classified as exactly one kind by is_null,
\* as_boolean, as_integer, as_block and is_alloc: the constructor's kind.
C16_OneKind == made.kind # "panic" => KindsOf(made.is) = {made.kind}

\* the block whose word differs from TRUE's in the tag bits alone
C16_Witness == made.kind = "block" /\ made.arg = 1 /\ KindsOf(made.is) = {"block"}

\* C17: an integer that fits the word less its tag bit comes back from
\* as_integer with its sign, and a block index that fits the word less its
\* three tag bits comes back from as_block.
C17_RoundTrip ==
    /\ made.kind = "integer" /\ made.arg \in (0 - ValueReprMod \div 4)..(ValueReprMod \div 4 - 1)
         => made.is.integer = Some(made.arg)
    /\ made.kind = "block" /\ made.arg < ValueReprMod \div 8
         => made.is.block = Some(made.arg)

\* the least integer that fits
C17_Witness ==
    /\ made.kind = "integer"
    /\ made.arg = 0 - ValueReprMod \div 4
    /\ made.is.integer = Some(made.arg)

(***************************************************************************)
(* The claim about the equality of Values, under SpecEq.                   *)
(***************************************************************************)
\* what a word stands for: its cell's kind and contents, elements and all
RECURSIVE Deep(_)
Deep(w) ==
    IF ~Value_is_alloc(w) THEN [kind |-> "word", v |-> <<w>>]
    ELSE IF ValueHeap[w].kind = "string" THEN ValueHeap[w]
    ELSE HeapList([i \in 1..Len(ValueHeap[w].v) |-> Deep(ValueHeap[w].v[i])])

\* C18: == is reflexive and symmetric; Values of different words are equal
\* only if both are heap strings of the same bytes or both heap lists of
\* equal elements in order; a string never equals a list; null, false and
\* the integer 0 are pairwise unequal.
C18_Equality ==
    /\ cmp.self
    /\ cmp.eq = cmp.qe
    /\ cmp.eq /\ cmp.lhs # cmp.rhs =>
         /\ Value_is_alloc(cmp.lhs) /\ Value_is_alloc(cmp.rhs)
         /\ Deep(cmp.lhs).kind = Deep(cmp.rhs).kind
         /\ Deep(cmp.lhs) = Deep(cmp.rhs)
    /\ Value_is_alloc(cmp.lhs) /\ Value_is_alloc(cmp.rhs)
         /\ ValueHeap[cmp.lhs].kind # ValueHeap[cmp.rhs].kind => ~cmp.eq
    /\ {cmp.lhs, cmp.rhs} \subseteq {REPR_NULL, REPR_FALSE, Value_from_integer(0)}
         /\ cmp.lhs # cmp.rhs => ~cmp.eq

\* two lists at different addresses whose elements are different
\* allocations of the same bytes
C18_Witness ==
    /\ cmp.lhs # cmp.rhs
    /\ Value_is_alloc(cmp.lhs) /\ Value_is_alloc(cmp.rhs)
    /\ ValueHeap[cmp.lhs].kind = "list" /\ ValueHeap[cmp.rhs].kind = "list"
    /\ ValueHeap[cmp.lhs].v # ValueHeap[cmp.rhs].v
    /\ cmp.eq

(***************************************************************************)
(* The claims about List, under SpecList.                                  *)
(***************************************************************************)
\* the invariants written beside Inner: no variant is empty, neither half of
\* a Cons is, a Repeat has a count of 2 or more and a list that is not empty
RECURSIVE WellFormed(_)
WellFormed(l) ==
    /\ (l = ListEmpty) <=> (List_len(l) = 0)
    /\ CASE l[1] = "Cons" ->
              /\ List_len(l[2]) > 0 /\ List_len(l[3]) > 0
              /\ WellFormed(l[2]) /\ WellFormed(l[3])
         [] l[1] = "Repeat" -> l[3] >= 2 /\ List_len(l[2]) > 0 /\ WellFormed(l[2])
         [] OTHER -> TRUE

\* C19: after any sequence of new, boxed, concat, repeat, get, set and
\* tail, every list has its inner absent exactly when its length is 0, both
\* halves of a Cons non-empty, and in a Repeat a count of at least 2 and a
\* non-empty list.
C19_ListInvariants == limpl = "value/list.rs" => WellFormed(la) /\ WellFormed(lb)

\* the values a list holds, in order
RECURSIVE Flat(_)
Flat(l) ==
    CASE l[1] = "None" -> <<>>
      [] l[1] = "Boxed" -> <<l[2]>>
      [] l[1] = "Slice" -> l[2]
      [] l[1] = "Cons" -> Flat(l[2]) \o Flat(l[3])
      [] l[1] = "Repeat" -> IF Flat(l[2]) = <<>> THEN <<>>
                            ELSE [i \in 1..(Len(Flat(l[2])) * l[3]) |->
                                     Flat(l[2])[((i - 1) % Len(Flat(l[2]))) + 1]]

\* C20: two lists compare equal exactly when they hold the same sequence of
\* values, whatever their representations: == answers, and a Cons or a
\* Repeat equals the flat list of the same values.
C20_RepresentationFree ==
    lres.op = "eq" => ~lres.panic /\ (lres.eq <=> Flat(la) = Flat(lb))

\* the same of the List of value/list.rs alone
C20_InValueList == limpl = "value/list.rs" => C20_RepresentationFree

\* C21, of lists: (x + y) + z equals x + (y + z), the length of x + y is
\* len(x) + len(y), and x + y equals the other operand when one has length 0;
\* no concatenation panics.
C21_ListConcat ==
    law.name = "concat" /\ limpl = "value/list.rs" =>
        /\ law.xy.ok /\ law.left.ok /\ law.right.ok
        /\ law.eq.ok /\ law.eq.v
        /\ List_len(law.xy.v) = List_len(law.x) + List_len(law.y)
        /\ List_len(law.x) = 0 => List_eq(law.xy.v, law.y, limpl) = Done(TRUE)
        /\ List_len(law.y) = 0 => List_eq(law.xy.v, law.x, limpl) = Done(TRUE)

\* C21, of strings: the same, whenever the concatenations are made at all;
\* one side fails exactly when the other does.
C21_StringConcat ==
    law.name = "sconcat" =>
        /\ law.left.ok = law.right.ok
        /\ law.left.ok => law.left.v = law.right.v
        /\ law.xy.ok => Len(law.xy.v) = Len(law.x) + Len(law.y)
        /\ Len(law.x) = 0 => law.xy = [ok |-> TRUE, v |-> law.y]
        /\ Len(law.y) = 0 => law.xy = [ok |-> TRUE, v |-> law.x]

\* C21: concatenation of lists and of strings is associative under
\* structural equality, the length of a ++ b is len(a) + len(b), and
\* concatenating with an empty operand returns the other operand unchanged.
C21_Concat == C21_ListConcat /\ C21_StringConcat

\* C22: for every list s and counts m, n: s * 0 is the empty list, s * 1
\* equals s, the length of s * n is n times the length of s, and (s * m) * n
\* equals s * (m * n) under structural equality.
C22_Repeat ==
    law.name = "repeat" =>
        /\ law.zero = ListEmpty
        /\ law.same = Done(TRUE)
        /\ List_len(law.rm) = law.m * List_len(law.x)
        /\ List_len(law.rmn) = law.n * List_len(law.rm)
        /\ law.eq = Done(TRUE)

\* the same in value/list.rs alone
C22_InValueList == limpl = "value/list.rs" => C22_Repeat

\* the position a start addresses: itself, or under negative indexing the
\* length added to a negative one
Addressed(n) == IF law.negative /\ law.b < 0 THEN n + law.b ELSE law.b

\* the answer GET owes on a container of the items given
GetOwed(items, r) ==
    LET n == Len(items)
        b == Addressed(n)
    IN IF b < 0 THEN r = Err("DomainError: negative start position")
       ELSE IF law.c < 0 THEN r = Err("DomainError: negative length")
       ELSE IF b + law.c > n THEN r = Err("IndexOutOfBounds")
       ELSE r.k = "ok" /\ r.v = [i \in 1..law.c |-> items[b + i]]

\* C23: GET a b c on a container of length n returns exactly the c items at
\* b..b+c-1 when 0 <= b, 0 <= c and b+c <= n; fails with IndexOutOfBounds when
\* b+c > n; a negative c is a DomainError; a negative b is a DomainError,
\* unless negative indexing is on, when b in -n..-1 addresses n+b and b < -n
\* is a DomainError.
C23_Get ==
    law.name = "GET" =>
        IF law.impl = "bytecode"
        THEN GetOwed(law.x.v, IF law.r.k = "ok" THEN Ok(law.r.v.v) ELSE law.r)
        ELSE GetOwed(Flat(law.x), IF law.r.k = "ok" THEN Ok(Flat(law.r.v)) ELSE law.r)

C23_Witness ==
    /\ law.name = "GET" /\ law.negative /\ law.b = 0 - 2 /\ law.c = 2
    /\ law.impl = "tree" /\ law.x[1] = "Cons" /\ law.r.k = "ok" /\ Flat(law.r.v) = <<1, 1>>

\* the SET was within the container: 0 <= b, 0 <= c and b + c <= len(a)
SetWithin == law.name = "SET" /\ law.b >= 0 /\ law.c >= 0 /\ law.b + law.c <= Len(law.x.v)

\* C24: SET a b c d with b + c <= len(a) returns a new container equal to
\* a[0..b] ++ d ++ a[b+c..], of length len(a) - c + len(d), and leaves a as
\* it was; with c = 0 every item of a is kept and d stands at position b.
C24_Set ==
    SetWithin =>
        LET a == law.x.v
            n == Len(a)
        IN /\ law.r.k = "ok"
           /\ law.r.v.t = law.x.t
           /\ law.r.v.v = SubSeq(a, 1, law.b) \o law.d.v \o SubSeq(a, law.b + law.c + 1, n)
           /\ Len(law.r.v.v) = n - law.c + Len(law.d.v)
           /\ law.after = law.x
           /\ law.c = 0 =>
                /\ \A i \in 1..law.b : law.r.v.v[i] = a[i]
                /\ \A i \in 1..Len(law.d.v) : law.r.v.v[law.b + i] = law.d.v[i]
                /\ \A i \in (law.b + 1)..n : law.r.v.v[Len(law.d.v) + i] = a[i]

C24_Witness ==
    /\ SetWithin /\ law.impl = "tree" /\ law.x.t = "list" /\ law.b = 1 /\ law.c = 0
    /\ law.r.k = "ok" /\ Len(law.r.v.v) = 5

\* the SET reached past the container: b > len(a) or b + c > len(a)
SetBeyond ==
    /\ law.name = "SET" /\ law.b >= 0 /\ law.c >= 0
    /\ (law.b > Len(law.x.v) \/ law.b + law.c > Len(law.x.v))

\* C25: SET a b c d where b > len(a) or b + c > len(a) fails with an
\* IndexOutOfBounds error, for lists and for strings alike; it returns no
\* result and does not abort.
C25_SetBeyond == SetBeyond => law.r = Err("IndexOutOfBounds")

\* the same of the bytecode VM alone
C25_InBytecode == SetBeyond /\ law.impl = "bytecode" => law.r = Err("IndexOutOfBounds")

\* the block of the HANDLE quit
Quitting == law.name = "HANDLE" /\ law.b.k = "err" /\ law.b.v[1] = "Quit"

\* C26, of QUIT: a QUIT inside the block of a HANDLE is not trapped; its status
\* reaches the host, _ is not assigned and the alternative is not run.
C26_QuitPasses ==
    Quitting => law.h.r = law.b /\ ~law.h.assigned /\ ~law.h.alt

\* C26, of the rest: on any other error HANDLE assigns the message to _ and
\* yields what the alternative yields; when the block succeeds HANDLE yields
\* its value, the alternative not run and _ not assigned.
C26_Trap ==
    law.name = "HANDLE" /\ ~Quitting =>
        IF law.b.k = "ok"
        THEN law.h.r = law.b /\ ~law.h.assigned /\ ~law.h.alt
        ELSE /\ law.h.assigned /\ law.h.underscore = ErrorText(law.b.v)
             /\ law.h.alt /\ law.h.r = law.e

\* C26: HANDLE lets a QUIT pass and traps every other error.
C26_Handle == C26_QuitPasses /\ C26_Trap

\* a block, or a list that holds a block at any depth
RECURSIVE Blocked(_)
Blocked(value) ==
    \/ value.t \in {"block", "ast", "variable"}
    \/ value.t = "list" /\ \E i \in 1..Len(value.v) : Blocked(value.v[i])

C28_DumpBlock ==
    law.name = "DUMP" /\ law.flag /\ law.x.t = "block" =>
        law.r.k = "err" /\ law.written = <<>>

\* what the code does: the refusal stands with strict_blocks off
C28_RefusedWhenOff ==
    law.name = "DUMP" /\ ~law.flag /\ law.x.t = "block" =>
        law.r.k = "err" /\ law.written = <<>>

\* an error raised in a frame within a CALL within a CALL has left that frame
Unwinding ==
    /\ nested.ret.k = "err" /\ nested.ret.at >= 3 /\ Len(nested.frames) < nested.ret.at

\* the error was wrapped once, by the frame it was raised in
WrappedOnce ==
    nested.ret.k = "err" /\ Len(nested.frames) < nested.ret.at =>
        nested.ret.wraps = 1 /\ nested.ret.by = nested.ret.at

\* a frame that was given a wrapped error gives the same error on
PassedOn ==
    nested.ret.k = "err" /\ nested.ret.wraps > 0 /\ nested'.ret.k # "panic" =>
        nested'.ret = nested.ret

\* every frame left popped the entry it pushed and restored the index
FramesRestore ==
    \A i \in 1..Len(nested.left) :
        /\ nested.left[i].popped = nested.left[i].index
        /\ nested.left[i].restored
    
\* a frame just left: the index is the one saved, the callstack as long as
\* the frames
JustLeft ==
    Len(nested'.left) > Len(nested.left) =>
        /\ nested'.current_index = nested.frames[Len(nested.frames)].index
        /\ Len(nested'.callstack) = Len(nested.callstack) - 1
        /\ Len(nested'.frames) = Len(nested'.callstack)

\* C29: an error that propagates out of nested frames of Vm::run is wrapped
\* into a Stacktrace exactly once, by the innermost frame, and the outer
\* frames pass it on unchanged; every frame, leaving with a value or with an
\* error, pops the callstack entry it pushed and restores current_index to
\* its value at entry.
C29_Frames == [](WrappedOnce /\ FramesRestore) /\ [][PassedOn /\ JustLeft]_vars

\* the same in a build without debug assertions
C29_InRelease == [](~debug_assertions => WrappedOnce /\ FramesRestore)
                 /\ [][~debug_assertions => PassedOn /\ JustLeft]_vars

\* the wrapping alone, in every build
C29_Wrapping == []WrappedOnce /\ [][PassedOn]_vars

\* what OUTPUT of the text owes the output
Owed(text) ==
    IF Len(text) > 0 /\ text[Len(text)] = "\\"
    THEN [i \in 1..(Len(text) - 1) |-> text[i]]
    ELSE [i \in 1..(Len(text) + 1) |-> IF i <= Len(text) THEN text[i] ELSE "\n"]

\* C30: OUTPUT s writes s and a newline, or, when s ends with a backslash,
\* s without that one backslash and no newline; its result is null, and the
\* one value takes the place of its operand on the stack.
C30_Output ==
    \A i \in Closing : open[i].f = "O" =>
        /\ output = Append(open[i].out, Owed(ToKnString(Top(StackBefore), opts).v))
        /\ stack = Append(SubSeq(StackBefore, 1, Len(StackBefore) - 1), NullV)
        /\ PushedOne(open[i])

C30_Witness ==
    \E i \in Closing : /\ open[i].f = "O" /\ Top(StackBefore) = StrBs
                       /\ output = Append(open[i].out, <<"a">>) /\ Top(stack) = NullV

\* an OUTPUT with a newline written
C30_Line ==
    \E i \in Closing : /\ open[i].f = "O" /\ Top(StackBefore) = IntV(2)
                       /\ output[Len(output)] = <<"2", "\n">>


(***************************************************************************)
(* The prompt (env/prompt.rs, function.rs PROMPT, value/value.rs assign).  *)
(* A text is the sequence of its characters; CR and LF are the carriage    *)
(* return and the line feed.                                               *)
(***************************************************************************)
MaxInput == 4
MaxPromptOps == 3
CR == "CR"
LF == "LF"
PromptChars == {"a", CR, LF}

RECURSIVE TextsUpTo(_)
TextsUpTo(n) ==
    IF n = 0 THEN {<<>>}
    ELSE LET shorter == TextsUpTo(n - 1)
         IN  shorter \cup {Append(t, c) : t \in {u \in shorter : Len(u) = n - 1}, c \in PromptChars}

PromptInputs == TextsUpTo(MaxInput)

\* the texts assigned to PROMPT
PromptTexts == << <<>>, <<"a">>, <<"a", LF, "b">>, <<"b", CR, LF>> >>

\* the blocks assigned to PROMPT, each by the value it evaluates to
PromptAsts == << [t |-> "null", v |-> <<>>], [t |-> "text", v |-> <<"b">>] >>

\* BufRead::read_line: the bytes up to and including the first line feed, or all of them
RECURSIVE BufRead_read_line(_)
BufRead_read_line(input) ==
    IF input = <<>> THEN [line |-> <<>>, rest |-> <<>>]
    ELSE IF Head(input) = LF THEN [line |-> <<LF>>, rest |-> Tail(input)]
    ELSE LET more == BufRead_read_line(Tail(input))
         IN  [line |-> <<Head(input)>> \o more.line, rest |-> more.rest]

\* the loop of strip_ending: pop while the last character is a carriage return
RECURSIVE strip_returns(_)
strip_returns(line) ==
    IF line = <<>> THEN line
    ELSE IF line[Len(line)] = CR THEN strip_returns(SubSeq(line, 1, Len(line) - 1))
    ELSE line

\* a stripping that removes one carriage return only
strip_ending_once(line) ==
    IF line = <<>> THEN line
    ELSE IF line[Len(line)] = LF
    THEN LET cut == SubSeq(line, 1, Len(line) - 1)
         IN  IF cut # <<>> /\ cut[Len(cut)] = CR THEN SubSeq(cut, 1, Len(cut) - 1) ELSE cut
    ELSE IF line[Len(line)] = CR THEN SubSeq(line, 1, Len(line) - 1)
    ELSE line

strip_ending(line) ==
    IF line = <<>> THEN line
    ELSE IF line[Len(line)] \in {LF, CR} THEN strip_returns(SubSeq(line, 1, Len(line) - 1))
    ELSE line

\* PROMPT of function.rs on the standard input: null at end of input, else the stripped line
Function_PROMPT(input) ==
    LET buf == BufRead_read_line(input).line
        cut == IF buf # <<>> /\ buf[Len(buf)] = LF THEN SubSeq(buf, 1, Len(buf) - 1) ELSE buf
    IN  IF buf = <<>> THEN None ELSE Some(strip_returns(cut))

\* str::split on the line feed
RECURSIVE SplitLF(_)
SplitLF(text) ==
    LET first == BufRead_read_line(text)
    IN  IF first.line # <<>> /\ first.line[Len(first.line)] = LF
        THEN <<SubSeq(first.line, 1, Len(first.line) - 1)>> \o SplitLF(first.rest)
        ELSE <<first.line>>

RECURSIVE StripEach(_)
StripEach(lines) ==
    IF lines = <<>> THEN <<>> ELSE <<strip_ending(Head(lines))>> \o StripEach(Tail(lines))

Buffered(queue) == [k |-> "Buffered", v |-> queue]

Prompt_close(p) == [p EXCEPT !.replacement = [k |-> "Closed", v |-> <<>>]]

Prompt_set_ast(p, ast) == [p EXCEPT !.replacement = [k |-> "Computed", v |-> ast]]

Prompt_reset_replacement(p) == [p EXCEPT !.replacement = NoReplacement]

Prompt_add_lines(p, new_lines) ==
    LET lines == IF p.replacement.k = "Buffered" THEN p.replacement.v ELSE <<>>
    IN  [p EXCEPT !.replacement = Buffered(lines \o StripEach(SplitLF(new_lines)))]

\* a read_line that takes the line added last
Prompt_read_line_back(p) ==
    IF p.replacement.k = "Closed" THEN [r |-> None, p |-> p]
    ELSE IF p.replacement.k = "Buffered"
    THEN IF p.replacement.v = <<>> THEN [r |-> None, p |-> p]
         ELSE [r |-> Some(p.replacement.v[Len(p.replacement.v)]),
               p |-> [p EXCEPT !.replacement =
                          Buffered(SubSeq(p.replacement.v, 1, Len(p.replacement.v) - 1))]]
    ELSE IF p.replacement.k = "Computed"
    THEN [r |-> IF p.replacement.v.t = "null" THEN None ELSE Some(p.replacement.v.v), p |-> p]
    ELSE LET read == BufRead_read_line(p.default)
         IN  IF read.line = <<>> THEN [r |-> None, p |-> p]
             ELSE [r |-> Some(strip_ending(read.line)), p |-> [p EXCEPT !.default = read.rest]]

\* Prompt::read_line: what it returns and the prompt it leaves
Prompt_read_line(p) ==
    IF p.replacement.k = "Closed" THEN [r |-> None, p |-> p]
    ELSE IF p.replacement.k = "Buffered"
    THEN IF p.replacement.v = <<>> THEN [r |-> None, p |-> p]
         ELSE [r |-> Some(Head(p.replacement.v)),
               p |-> [p EXCEPT !.replacement = Buffered(Tail(p.replacement.v))]]
    ELSE IF p.replacement.k = "Computed"
    THEN [r |-> IF p.replacement.v.t = "null" THEN None ELSE Some(p.replacement.v.v), p |-> p]
    ELSE LET read == BufRead_read_line(p.default)
         IN  IF read.line = <<>> THEN [r |-> None, p |-> p]
             ELSE [r |-> Some(strip_ending(read.line)), p |-> [p EXCEPT !.default = read.rest]]

PromptFrame == UNCHANGED <<vmvars, gcvars, bvars, wvars, evars, lvars, rvars, environment, ehist>>

PromptOps == phist.n < MaxPromptOps

\* the history of a call: the lines added to the buffer since it was started fresh, and
\* the lines read_line returned from it
LinesAdded == IF phist.n = 0 THEN <<>> ELSE phist.added
LinesReturned == IF phist.n = 0 THEN <<>> ELSE phist.returned

\* = PROMPT NULL
PromptClose ==
    /\ PromptOps
    /\ prompt' = Prompt_close(prompt)
    /\ phist' = [op |-> "close", n |-> phist.n + 1, was |-> prompt, r |-> None, alt |-> None,
                 added |-> <<>>, returned |-> <<>>]
    /\ PromptFrame

\* = PROMPT TRUE
PromptReset ==
    /\ PromptOps
    /\ prompt' = Prompt_reset_replacement(prompt)
    /\ phist' = [op |-> "reset_replacement", n |-> phist.n + 1, was |-> prompt, r |-> None,
                 alt |-> None, added |-> <<>>, returned |-> <<>>]
    /\ PromptFrame

\* = PROMPT BLOCK ...
PromptSetAst ==
    /\ PromptOps
    /\ \E i \in DOMAIN PromptAsts : prompt' = Prompt_set_ast(prompt, PromptAsts[i])
    /\ phist' = [op |-> "set_ast", n |-> phist.n + 1, was |-> prompt, r |-> None, alt |-> None,
                 added |-> <<>>, returned |-> <<>>]
    /\ PromptFrame

\* = PROMPT "..."
PromptAddLines ==
    /\ PromptOps
    /\ \E i \in DOMAIN PromptTexts :
          /\ prompt' = Prompt_add_lines(prompt, PromptTexts[i])
          /\ phist' = [op |-> "add_lines", n |-> phist.n + 1, was |-> prompt, r |-> None,
                       alt |-> None,
                       added |-> (IF prompt.replacement.k = "Buffered" THEN LinesAdded ELSE <<>>)
                                     \o StripEach(SplitLF(PromptTexts[i])),
                       returned |-> IF prompt.replacement.k = "Buffered" THEN LinesReturned
                                    ELSE <<>>]
    /\ PromptFrame

\* PROMPT
PromptReadLine ==
    /\ PromptOps
    /\ LET read == Prompt_read_line(prompt)
       IN  /\ prompt' = read.p
           /\ phist' = [op |-> "read_line", n |-> phist.n + 1, was |-> prompt, r |-> read.r,
                        alt |-> Function_PROMPT(prompt.default),
                        added |-> LinesAdded,
                        returned |-> IF prompt.replacement.k = "Buffered" /\ read.r.some
                                     THEN Append(LinesReturned, read.r.v) ELSE LinesReturned]
    /\ PromptFrame

InitPrompt ==
    /\ VmIdle
    /\ GcNew
    /\ BuilderIdle /\ ValueIdle /\ EqIdle /\ ListIdle /\ RunIdle /\ VariablesIdle
    /\ \E input \in PromptInputs : prompt = [default |-> input, replacement |-> NoReplacement]
    /\ phist = NoPromptOp

NextPrompt ==
    \/ PromptClose
    \/ PromptReset
    \/ PromptSetAst
    \/ PromptAddLines
    \/ PromptReadLine

SpecPrompt == InitPrompt /\ [][NextPrompt]_vars

\* the line without one trailing line feed and without the carriage returns before the end
StrippedOf(line) ==
    LET n == Len(line)
        m == IF n > 0 /\ line[n] = LF THEN n - 1 ELSE n
        keep == {j \in 0..m : (j = 0 \/ line[j] # CR) /\ \A i \in (j + 1)..m : line[i] = CR}
    IN  SubSeq(line, 1, CHOOSE j \in keep : TRUE)

FromDefault == phist.op = "read_line" /\ phist.was.replacement.k = "None"

IsPrefix(short, long) == Len(short) <= Len(long) /\ SubSeq(long, 1, Len(short)) = short

ReadWhile(k) == phist.op = "read_line" /\ phist.was.replacement.k = k

\* C37: once closed, read_line returns null and the prompt stays closed; the lines added
\* come back from read_line one at a time in the order they were added, and an exhausted
\* buffer gives null; a buffered or closed prompt never consumes the default input;
\* add_lines on a closed or computed prompt starts a buffer holding the new lines only;
\* the replacement is absent again only after reset_replacement.
C37_Replacement ==
    /\ ReadWhile("Closed") => ~phist.r.some /\ prompt = phist.was
    /\ ReadWhile("Buffered") =>
          /\ prompt.default = phist.was.default
          /\ prompt.replacement.k = "Buffered"
          /\ phist.r.some <=> phist.was.replacement.v # <<>>
          /\ ~phist.r.some => LinesReturned = LinesAdded
    /\ phist.n > 0 /\ prompt.replacement.k = "Buffered" =>
          /\ IsPrefix(LinesReturned, LinesAdded)
          /\ LinesReturned \o prompt.replacement.v = LinesAdded
    /\ phist.op = "add_lines" /\ phist.was.replacement.k \in {"Closed", "Computed"} =>
          /\ LinesReturned = <<>>
          /\ prompt.replacement = Buffered(LinesAdded)
          /\ LinesAdded # <<>>
    /\ phist.n > 0 /\ prompt.default # phist.was.default => ReadWhile("None")
    /\ phist.n > 0 /\ prompt.replacement.k = "None" /\ phist.was.replacement.k # "None" =>
          phist.op = "reset_replacement"

C37_Witness ==
    /\ ReadWhile("Buffered")
    /\ LinesReturned = << <<"a">>, <<"b">> >>
    /\ LinesAdded = LinesReturned
    /\ prompt.default # <<>>

\* an exhausted buffer answers null and leaves the default input unread
C37_Exhausted ==
    /\ ReadWhile("Buffered")
    /\ ~phist.r.some
    /\ LinesAdded # <<>>
    /\ prompt.default # <<>>

(***************************************************************************)
(* The variables of an environment (environment.rs, env.rs, variable.rs).  *)
(* A Variable is a reference-counted cell holding its name and its value;  *)
(* a handle is the address of the cell.                                    *)
(***************************************************************************)
MaxEnvOps == 4
EnvNames == {"a", "b"}
EnvValues == {1, 2}

\* Variable::new: a fresh unassigned cell
Variable_new(e, name) ==
    [e EXCEPT !.cells = Append(e.cells, [name |-> name, value |-> None])]

\* a lookup that never finds the name
Environment_lookup_fresh(e, name) ==
    LET created == Variable_new(e, name)
    IN  [e |-> [created EXCEPT !.variables = e.variables \cup {Len(created.cells)}],
         handle |-> Len(created.cells)]

\* Environment::lookup / Environment::get: the variable of that name, created when it is
\* the first time the name is asked for
Environment_lookup(e, name) ==
    IF \E v \in e.variables : e.cells[v].name = name
    THEN [e |-> e, handle |-> CHOOSE v \in e.variables : e.cells[v].name = name]
    ELSE LET created == Variable_new(e, name)
         IN  [e |-> [created EXCEPT !.variables = e.variables \cup {Len(created.cells)}],
              handle |-> Len(created.cells)]

\* Variable::assign: replaces the value and returns the previous one
Variable_assign(e, handle, new) ==
    [e |-> [e EXCEPT !.cells[handle].value = Some(new)], r |-> e.cells[handle].value]

\* Variable::fetch
Variable_fetch(e, handle) == e.cells[handle].value

\* Variable == Variable compares the names
Variable_eq(e, g, h) == e.cells[g].name = e.cells[h].name

VariablesFrame == UNCHANGED <<vmvars, gcvars, bvars, wvars, evars, lvars, rvars, prompt, phist>>

EnvOps == ehist.n < MaxEnvOps

\* history: the value last assigned under a name, by whichever handle
LastAssigned(name) ==
    IF \E i \in DOMAIN ehist.assigned : ehist.assigned[i].name = name
    THEN LET latest == CHOOSE i \in DOMAIN ehist.assigned :
                        /\ ehist.assigned[i].name = name
                        /\ \A j \in DOMAIN ehist.assigned :
                              ehist.assigned[j].name = name => j <= i
         IN  Some(ehist.assigned[latest].value)
    ELSE None

EnvLookup ==
    /\ EnvOps
    /\ \E name \in EnvNames :
          LET found == Environment_lookup(environment, name)
          IN  /\ environment' = found.e
              /\ ehist' = [ehist EXCEPT !.n = @ + 1, !.op = "lookup", !.name = name,
                                        !.handles = Append(@, found.handle),
                                        !.h = Len(ehist.handles) + 1, !.r = None]
    /\ VariablesFrame

EnvAssign ==
    /\ EnvOps
    /\ \E h \in DOMAIN ehist.handles, new \in EnvValues :
          LET done == Variable_assign(environment, ehist.handles[h], new)
              name == environment.cells[ehist.handles[h]].name
          IN  /\ environment' = done.e
              /\ ehist' = [ehist EXCEPT !.n = @ + 1, !.op = "assign", !.name = name, !.h = h,
                                        !.r = done.r,
                                        !.assigned = Append(@, [name |-> name, value |-> new])]
    /\ VariablesFrame

EnvFetch ==
    /\ EnvOps
    /\ \E h \in DOMAIN ehist.handles :
          /\ ehist' = [ehist EXCEPT !.n = @ + 1, !.op = "fetch", !.h = h,
                                    !.name = environment.cells[ehist.handles[h]].name,
                                    !.r = Variable_fetch(environment, ehist.handles[h])]
          /\ UNCHANGED environment
    /\ VariablesFrame

InitVariables ==
    /\ VmIdle
    /\ GcNew
    /\ BuilderIdle /\ ValueIdle /\ EqIdle /\ ListIdle /\ RunIdle /\ PromptIdle
    /\ VariablesIdle

NextVariables ==
    \/ EnvLookup
    \/ EnvAssign
    \/ EnvFetch

SpecVariables == InitVariables /\ [][NextVariables]_vars

HandleName(h) == environment.cells[ehist.handles[h]].name

\* the value assigned under the name before the last call
AssignedBefore(name) ==
    LET before == SubSeq(ehist.assigned, 1, Len(ehist.assigned) - 1)
    IN  IF \E i \in DOMAIN before : before[i].name = name
        THEN Some(before[CHOOSE i \in DOMAIN before :
                             /\ before[i].name = name
                             /\ \A j \in DOMAIN before : before[j].name = name => j <= i].value)
        ELSE None

\* C32: the handles a name was looked up to are one variable: they compare equal and are the
\* same cell, the environment holds one variable per name, every handle fetches the value
\* last assigned under its name by any handle, none before the first assign, and assign
\* returns the value assigned before.
C32_Lookup ==
    /\ \A g, h \in DOMAIN ehist.handles :
          HandleName(g) = HandleName(h) =>
              /\ Variable_eq(environment, ehist.handles[g], ehist.handles[h])
              /\ ehist.handles[g] = ehist.handles[h]
    /\ \A v, w \in environment.variables :
          environment.cells[v].name = environment.cells[w].name => v = w
    /\ \A h \in DOMAIN ehist.handles :
          Variable_fetch(environment, ehist.handles[h]) = LastAssigned(HandleName(h))
    /\ ehist.op = "fetch" => ehist.r = LastAssigned(ehist.name)
    /\ ehist.op = "assign" => ehist.r = AssignedBefore(ehist.name)

C32_Witness ==
    /\ ehist.op = "fetch"
    /\ Len(ehist.handles) = 2
    /\ HandleName(1) = HandleName(2)
    /\ ehist.h = 2
    /\ ehist.assigned = <<[name |-> HandleName(1), value |-> 2]>>
    /\ ehist.r = Some(2)

(***************************************************************************)
(* Operations applied once to operands drawn from bounded sets: RANDOM,    *)
(* the coercions of a block, and the list operations of the tree-walking   *)
(* interpreter (crate/src).                                                *)
(***************************************************************************)
\* the width of crate::Integer, scaled down
RandomBits == 6
IntegerMin == -(2 ^ (RandomBits - 1))
IntegerMax == 2 ^ (RandomBits - 1) - 1

\* Integer::abs: the negation of the minimum overflows, which aborts under debug
\* assertions and wraps to the minimum without
Integer_abs(x, debug) ==
    IF x = IntegerMin
    THEN IF debug THEN Abort("attempt to negate with overflow") ELSE Ok(IntegerMin)
    ELSE Ok(IF x < 0 THEN -x ELSE x)

\* Environment::random on what rand::random produced
Environment_random(raw, debug) == Integer_abs(raw, debug)

\* RANDOM: Opcode::Random pushes what Environment::random returned
Random ==
    /\ law = NoLaw
    /\ \E raw \in IntegerMin..IntegerMax, debug \in BOOLEAN :
          law' = [name |-> "RANDOM", raw |-> raw, debug |-> debug,
                  r |-> Environment_random(raw, debug)]
    /\ IndexFrame

\* SliceFetch for usize: the element at an index, or None
RECURSIVE List_fetch(_, _)
List_fetch(l, index) ==
    CASE l[1] = "None" -> None
      [] l[1] = "Boxed" -> IF index = 0 THEN Some(l[2]) ELSE None
      [] l[1] = "Slice" -> IF index < Len(l[2]) THEN Some(l[2][index + 1]) ELSE None
      [] l[1] = "Cons" ->
            IF index < List_len(l[2]) THEN List_fetch(l[2], index)
            ELSE List_fetch(l[3], index - List_len(l[2]))
      [] l[1] = "Repeat" ->
            IF List_len(l[2]) * l[3] < index THEN None
            ELSE List_fetch(l[2], index % l[3])

MaxFetch == 7
FetchBases == << List_new(<<0>>), List_new(<<0, 1>>), List_new(<<0, 1, 2>>) >>
FetchConses ==
    [k \in 1..9 |-> List_concat(FetchBases[((k - 1) \div 3) + 1], FetchBases[((k - 1) % 3) + 1],
                                FALSE, "value/list.rs").v]
FetchRepeats ==
    [k \in 1..6 |-> List_repeat(FetchBases[((k - 1) \div 2) + 1], 2 + ((k - 1) % 2))]
FetchLists ==
    <<ListEmpty>> \o FetchBases \o FetchConses \o FetchRepeats
        \o << List_repeat(FetchConses[2], 2),
              List_concat(FetchRepeats[3], FetchBases[1], FALSE, "value/list.rs").v >>

\* List::get with an index, beside List::iter of the same list
Fetch ==
    /\ law = NoLaw
    /\ \E k \in DOMAIN FetchLists, index \in 0..MaxFetch :
          law' = [name |-> "get", l |-> FetchLists[k], index |-> index,
                  r |-> List_fetch(FetchLists[k], index),
                  items |-> List_iter(FetchLists[k], "value/list.rs").v]
    /\ IndexFrame

\* the names the program declares, in slot order, and the names a string can spell
DeclaredNames == <<"a", "b">>
SpelledNames == {"a", "b", "c", "d"}
SlotValues == {None, Some(1), Some(2)}

\* Program::variable_index of a name: its slot, if the program declares it
Program_variable_index(names, name) ==
    IF \E i \in DOMAIN names : names[i] = name
    THEN Some((CHOOSE i \in DOMAIN names : names[i] = name) - 1)
    ELSE None

\* Vm::get_variable: the slot's value, or UndefinedVariable with the slot's name
Vm_get_variable(m, offset) ==
    IF m.variables[offset + 1].some THEN Ok(m.variables[offset + 1].v)
    ELSE Err(<<"UndefinedVariable", m.names[offset + 1]>>)

\* Opcode::SetDynamicVar: the slot of a declared name, else the dynamic entry
Opcode_SetDynamicVar(m, name, value) ==
    LET index == Program_variable_index(m.names, name)
    IN  IF index.some THEN [m EXCEPT !.variables[index.v + 1] = Some(value)]
        ELSE [m EXCEPT !.dynamic_variables[name] = Some(value)]

\* Opcode::Value: offset is the immediate of the instruction
Opcode_Value(m, name, offset) ==
    LET compiletime_variable_offset == Program_variable_index(m.names, name)
    IN  IF compiletime_variable_offset.some THEN Vm_get_variable(m, offset)
        ELSE IF m.dynamic_variables[name].some THEN Ok(m.dynamic_variables[name].v)
        ELSE Err(<<"UndefinedVariable", name>>)

\* = (name) value, then VALUE (s), in a machine whose slots and dynamic entries hold what
\* earlier assignments left; the Value instruction was emitted by opcode_without_offset
ValueOf ==
    /\ law = NoLaw
    /\ \E slots \in [DOMAIN DeclaredNames -> SlotValues],
          c \in SlotValues,
          t \in SpelledNames, v \in {1, 2}, name \in SpelledNames :
          LET m == [names |-> DeclaredNames, variables |-> slots,
                    dynamic_variables |-> [n \in SpelledNames |-> IF n = "c" THEN c ELSE None]]
              assigned == Opcode_SetDynamicVar(m, t, v)
              word == opcode_without_offset(BuilderDefault, "Value").code[1]
          IN  law' = [name |-> "VALUE", m |-> m, t |-> t, v |-> v, s |-> name,
                      after |-> assigned, offset |-> word.off,
                      r |-> Opcode_Value(assigned, name, word.off)]
    /\ IndexFrame

\* the index of a block is at least 1: its code follows the Jump over it
MaxBlockIndex == 4

\* the coercions of a block, under either setting of no_block_conversions
CoerceBlock ==
    /\ law = NoLaw
    /\ \E j \in 1..MaxBlockIndex, flag \in BOOLEAN :
          LET x == BlockV(j)
              o == [OptionsDefault EXCEPT !.no_block_conversions = flag]
          IN  law' = [name |-> "coerce", x |-> x, word |-> Repr(x), flag |-> flag,
                      string |-> ToKnString(x, o), integer |-> ToInteger(x, o),
                      list |-> ToList(x, o)]
    /\ IndexFrame

\* what the block of a filter evaluates to, by the value the variable _ holds: a true
\* value, a false one, a value with no boolean conversion, or an error of the block
BlockOutcomes ==
    << Ok(BoolV(TRUE)), Ok(IntV(0)), Ok(TreeVariable("x")), Err("UndefinedVariable") >>
FilterElements == 0..2
FilterBlocks == [FilterElements -> DOMAIN BlockOutcomes]

\* one step of the closure of filter: _ is assigned the element, the block is run, its
\* value coerced; keep says whether the element is yielded
Filter_step(ele, block, which) ==
    LET underscore == ele
        ran == BlockOutcomes[block[underscore]]
        b == IF ran.k = "ok" THEN Tree_to_boolean(ran.v) ELSE ran
    IN  IF b.k # "ok" THEN [k |-> "err", v |-> b.v, keep |-> FALSE]
        ELSE [k |-> "ok", v |-> "", keep |-> IF which = "list.rs" THEN TRUE ELSE b.v]

\* the iteration collected: the elements kept up to the first error, the values assigned
\* to _ on the way
RECURSIVE Filter_collect(_, _, _)
Filter_collect(items, block, which) ==
    IF items = <<>> THEN [k |-> "ok", kept |-> <<>>, err |-> "", assigned |-> <<>>]
    ELSE LET step == Filter_step(Head(items), block, which)
         IN  IF step.k = "err"
             THEN [k |-> "err", kept |-> <<>>, err |-> step.v, assigned |-> <<Head(items)>>]
             ELSE LET more == Filter_collect(Tail(items), block, which)
                  IN  [more EXCEPT !.kept = IF step.keep THEN <<Head(items)>> \o @ ELSE @,
                                   !.assigned = <<Head(items)>> \o @]

\* List::filter of either implementation
List_filter(l, block, which) ==
    LET items == List_iter(l, which)
    IN  IF ~items.ok THEN [k |-> "panic", v |-> ListEmpty, err |-> "not yet implemented",
                           assigned |-> <<>>]
        ELSE LET c == Filter_collect(items.v, block, which)
             IN  [k |-> c.k, v |-> List_new(c.kept), err |-> c.err, assigned |-> c.assigned]

FilterLists ==
    << ListEmpty, List_new(<<0>>), List_new(<<0, 1>>), List_new(<<1, 0, 2>>),
       List_concat(List_new(<<0>>), List_new(<<1, 2>>), FALSE, "value/list.rs").v,
       List_repeat(List_new(<<0, 1>>), 2) >>

Filter ==
    /\ law = NoLaw
    /\ \E i \in DOMAIN FilterLists, block \in FilterBlocks, which \in {"value/list.rs", "list.rs"} :
          law' = [name |-> "filter", l |-> FilterLists[i], block |-> block, impl |-> which,
                  items |-> Flat(FilterLists[i]),
                  r |-> List_filter(FilterLists[i], block, which)]
    /\ IndexFrame

\* the width of usize, scaled down; a Vec holds at most isize::MAX bytes
UsizeBits == 8
IsizeMax == 2 ^ (UsizeBits - 1) - 1

\* List::contains
RECURSIVE List_contains(_, _)
List_contains(l, value) ==
    CASE l[1] = "None" -> FALSE
      [] l[1] = "Boxed" -> l[2] = value
      [] l[1] = "Slice" -> \E i \in DOMAIN l[2] : l[2][i] = value
      [] l[1] = "Cons" -> List_contains(l[2], value) \/ List_contains(l[3], value)
      [] l[1] = "Repeat" -> List_contains(l[2], value)

\* Vec::with_capacity(lhs - rhs) on usize: the subtraction overflows when rhs is larger,
\* which aborts under overflow checks and wraps without, and a capacity above isize::MAX
\* aborts in the allocator's check
Vec_with_capacity(lhs, rhs, debug) ==
    IF lhs < rhs /\ debug THEN Abort("attempt to subtract with overflow")
    ELSE LET capacity == (lhs - rhs) % (2 ^ UsizeBits)
         IN  IF capacity > IsizeMax THEN Abort("capacity overflow") ELSE Ok(capacity)

\* the loop of difference: the elements not in rhs and not yet pushed
RECURSIVE Difference_collect(_, _, _)
Difference_collect(items, rhs, list) ==
    IF items = <<>> THEN list
    ELSE Difference_collect(Tail(items), rhs,
             IF ~List_contains(rhs, Head(items)) /\ ~(\E i \in DOMAIN list : list[i] = Head(items))
             THEN Append(list, Head(items)) ELSE list)

\* List::difference of either implementation
List_difference(l, rhs, debug, which) ==
    LET vec == Vec_with_capacity(List_len(l), List_len(rhs), debug)
        items == List_iter(l, which)
    IN  IF vec.k # "ok" THEN vec
        ELSE IF ~items.ok THEN Abort("not yet implemented")
        ELSE Ok(List_new(Difference_collect(items.v, rhs, <<>>)))

DifferenceLists ==
    << ListEmpty, List_new(<<0>>), List_new(<<0, 1>>), List_new(<<1, 0, 1>>), List_new(<<2, 1, 0>>),
       List_concat(List_new(<<0>>), List_new(<<0, 1>>), FALSE, "value/list.rs").v,
       List_repeat(List_new(<<0, 1>>), 2) >>

Difference ==
    /\ law = NoLaw
    /\ \E i \in DOMAIN DifferenceLists, j \in DOMAIN DifferenceLists, debug \in BOOLEAN,
          which \in {"value/list.rs", "list.rs"} :
          law' = [name |-> "difference", a |-> DifferenceLists[i], b |-> DifferenceLists[j],
                  debug |-> debug, impl |-> which,
                  r |-> List_difference(DifferenceLists[i], DifferenceLists[j], debug, which)]
    /\ IndexFrame

NextPure ==
    \/ Random
    \/ Fetch
    \/ ValueOf
    \/ CoerceBlock
    \/ Filter
    \/ Difference

SpecPure == InitIndex /\ [][NextPure]_vars

\* C33: Environment::random returns no negative integer, whatever the generator produced
C33_Random == law.name = "RANDOM" /\ law.r.k = "ok" => law.r.v >= 0

\* every value but the minimum comes back as its absolute value
C33_AboveMin ==
    law.name = "RANDOM" /\ law.raw # IntegerMin =>
        law.r.k = "ok" /\ law.r.v >= 0 /\ law.r.v \in {law.raw, -law.raw}

\* C34: Vm::run, entered with the stack empty, returns a value or an error only with the
\* stack empty again
C34_StackLength == status \in {"done", "error"} => stack = <<>>

\* a run that ends with a value and executed no WHILE leaves the stack as it found it
C34_Straight == status = "done" /\ ~Uses("W") => stack = <<>>

\* C35: get(i) is the i-th value the iteration of the list yields when i is below the
\* length, and absent from the length on, whatever the representation
C35_Get ==
    law.name = "get" =>
        IF law.index < Len(law.items)
        THEN law.r.some /\ law.r.v = law.items[law.index + 1]
        ELSE ~law.r.some

\* the same for the lists that hold no Repeat
RECURSIVE Repeats(_)
Repeats(l) ==
    CASE l[1] = "Repeat" -> TRUE
      [] l[1] = "Cons" -> Repeats(l[2]) \/ Repeats(l[3])
      [] OTHER -> FALSE

C35_WithoutRepeat ==
    law.name = "get" /\ ~Repeats(law.l) =>
        IF law.index < Len(law.items)
        THEN law.r.some /\ law.r.v = law.items[law.index + 1]
        ELSE ~law.r.some

\* the value last assigned under a name: by the assignment just made, else what the slot of
\* a declared name holds, else the dynamic entry
LastValue ==
    IF law.s = law.t THEN Some(law.v)
    ELSE IF \E i \in DOMAIN law.m.names : law.m.names[i] = law.s
    THEN law.m.variables[CHOOSE i \in DOMAIN law.m.names : law.m.names[i] = law.s]
    ELSE law.m.dynamic_variables[law.s]

\* C36: VALUE s is the value last assigned to the variable named s, from the slot of s when
\* the program declares s and from the dynamic entry otherwise, and UndefinedVariable of s
\* when s was never assigned
C36_Value ==
    law.name = "VALUE" =>
        IF LastValue.some THEN law.r.k = "ok" /\ law.r.v = LastValue.v
        ELSE law.r.k = "err" /\ law.r.v = <<"UndefinedVariable", law.s>>

\* names the program does not declare are read from the dynamic entries as claimed
C36_Dynamic ==
    law.name = "VALUE" /\ law.s \in {"c", "d"} =>
        IF LastValue.some THEN law.r.k = "ok" /\ law.r.v = LastValue.v
        ELSE law.r.k = "err" /\ law.r.v = <<"UndefinedVariable", law.s>>

\* C38: coercing a block to a string, to an integer or to a list is an error, for every
\* block index and either setting of no_block_conversions
C38_BlockCoercions ==
    law.name = "coerce" =>
        /\ law.string.k = "err"
        /\ law.integer.k = "err"
        /\ law.list.k = "err"

\* to an integer and to a list it is an error always, and to a string whenever the option
\* is set or the word of the block is above the literals
C38_PastLiterals ==
    law.name = "coerce" =>
        /\ law.integer.k = "err"
        /\ law.list.k = "err"
        /\ law.flag \/ law.word > LITERAL_MAX_LENGTH => law.string.k = "err"

\* what the block and the coercion make of an element: "true", "false" or the error
Verdict(block, ele) ==
    LET ran == BlockOutcomes[block[ele]]
    IN  IF ran.k # "ok" THEN ran.v
        ELSE IF ran.v.t = "variable" THEN "NoConversion"
        ELSE IF Tree_truthy(ran.v) THEN "true" ELSE "false"

FilterOwed ==
    LET failing == {i \in DOMAIN law.items : Verdict(law.block, law.items[i]) \notin {"true", "false"}}
        Truthy(ele) == Verdict(law.block, ele) = "true"
    IN  IF failing = {}
        THEN /\ law.r.k = "ok"
             /\ Flat(law.r.v) = SelectSeq(law.items, Truthy)
             /\ law.r.assigned = law.items
        ELSE /\ law.r.k = "err"
             /\ \E i \in failing :
                   /\ \A j \in failing : i <= j
                   /\ law.r.err = Verdict(law.block, law.items[i])
                   /\ law.r.assigned = SubSeq(law.items, 1, i)

\* C39: filter returns the elements for which the block, run with _ assigned the element,
\* is truthy, in their order, and the first error of the block or of the coercion as its
\* error; in both list implementations
C39_Filter == law.name = "filter" => FilterOwed

\* the filter of value/list.rs does
C39_ValueList == law.name = "filter" /\ law.impl = "value/list.rs" => FilterOwed

\* the filter of list.rs returns an element the block found false
C39_KeptFalse ==
    /\ law.name = "filter"
    /\ law.impl = "list.rs"
    /\ law.l = List_new(<<0, 1>>)
    /\ Verdict(law.block, 0) = "true"
    /\ Verdict(law.block, 1) = "false"
    /\ law.r.k = "ok"
    /\ Flat(law.r.v) = <<0, 1>>

\* the distinct elements of a that do not occur in b, in the order of their first occurrence
DifferenceOwed ==
    LET items == Flat(law.a)
        others == Flat(law.b)
        first == {i \in DOMAIN items :
                     /\ \A j \in DOMAIN others : others[j] # items[i]
                     /\ \A j \in 1..(i - 1) : items[j] # items[i]}
    IN  [k \in 1..Cardinality(first) |->
            items[CHOOSE i \in first : Cardinality({j \in first : j <= i}) = k]]

\* C40: difference(a, b) is the distinct elements of a that do not occur in b, in order of
\* first occurrence, for all lists, b longer than a included
C40_Difference ==
    law.name = "difference" => law.r.k = "ok" /\ Flat(law.r.v) = DifferenceOwed

\* it is, in value/list.rs, when b is not longer than a
C40_NotLonger ==
    law.name = "difference" /\ law.impl = "value/list.rs" /\ List_len(law.b) <= List_len(law.a) =>
        law.r.k = "ok" /\ Flat(law.r.v) = DifferenceOwed

\* b longer than a: the capacity computed aborts the call in either build
C40_Longer ==
    law.name = "difference" /\ List_len(law.b) > List_len(law.a) => law.r.k = "panic"
====
